---------------------------- MODULE Spec2Model ----------------------------
(***************************************************************************)
(* A model of the geolab / geolysis bearing-capacity sources:              *)
(*   - geolysis/core/foundation.py            (footings, FoundationSize,   *)
(*                                             create_foundation)          *)
(*   - geolysis/bearing_capacity/ubc/__init__.py                           *)
(*                                            (UltimateBearingCapacity)    *)
(*   - geolysis/core/bearing_capacity/abc_4_soils/abc_4_cohl_soils.py      *)
(*                                            (allowable bearing capacity) *)
(*   - geolysis/core/bearing_capacity/ubc_4_soils/hansen_ubc.py (HansenUBC)*)
(*   - geolab/bearing_capacity/terzaghi.py    (TerzaghiBCF, TBC)           *)
(*                                                                         *)
(* Python numbers are modelled as exact rationals [n |-> num, d |-> den]   *)
(* in lowest terms (d > 0), with math.inf as 1/0.  Python strings are      *)
(* sequences of one-character strings.  A call either returns a value,     *)
(* Ok(v), or raises, Raise(exception class).                               *)
(***************************************************************************)
EXTENDS Integers, Sequences, FiniteSets, TLC

VARIABLES
    fs,         \* the FoundationSize create_foundation returned (or NONE)
    fs_call,    \* arguments of the last create_foundation call (or NONE)
    fs_ret,     \* what that call returned or raised (or NONE)
    ubc,        \* the ultimate-bearing-capacity object under analysis (or NONE)
    ubc_call,   \* the last operation applied to / constructing ubc
    ubc_ret,    \* what that operation returned or raised
    abc,        \* the allowable-bearing-capacity object under analysis (or NONE)
    abc_call,   \* the last operation applied to / constructing abc
    abc_ret,    \* what that operation returned or raised
    tbc,        \* the Terzaghi bearing-capacity object under analysis (or NONE)
    tbc_call,   \* the last operation applied to / constructing tbc
    tbc_ret,    \* what that operation returned or raised
    nq_cache,   \* the functools.cache of TerzaghiBCF._nq: pairs <<phi, value>>
    hf_call,    \* the last call of a Hansen factor class method (or NONE)
    hf_ret      \* what that call returned or raised (or NONE)

vars == <<fs, fs_call, fs_ret, ubc, ubc_call, ubc_ret, abc, abc_call, abc_ret, tbc, tbc_call, tbc_ret, nq_cache, hf_call, hf_ret>>
fs_vars == <<fs, fs_call, fs_ret>>
ubc_vars == <<ubc, ubc_call, ubc_ret>>
abc_vars == <<abc, abc_call, abc_ret>>
tbc_vars == <<tbc, tbc_call, tbc_ret, nq_cache>>
hf_vars == <<hf_call, hf_ret>>

-----------------------------------------------------------------------------
(* Python values *)

\* Python's None
NONE == [none |-> TRUE]

Ok(v) == [tag |-> "ok", val |-> v]
Raise(e) == [tag |-> "raise", exc |-> e]
IsOk(r) == r.tag = "ok"
Raises(r, e) == r.tag = "raise" /\ r.exc = e

Abs(i) == IF i < 0 THEN -i ELSE i

RECURSIVE GCD(_, _)
GCD(a, b) == IF b = 0 THEN a ELSE GCD(b, a % b)

\* the number n/d in lowest terms; n/0 with n > 0 is math.inf
R(n, d) ==
    IF d = 0 THEN [n |-> IF n > 0 THEN 1 ELSE IF n < 0 THEN -1 ELSE 0, d |-> 0]
    ELSE LET s == IF d < 0 THEN -1 ELSE 1
             g == GCD(Abs(n), Abs(d))
         IN  [n |-> (s * n) \div g, d |-> (s * d) \div g]

INF == [n |-> 1, d |-> 0]
Zero == R(0, 1)
One == R(1, 1)

IsNum(x) == "n" \in DOMAIN x

Add(a, b) == R(a.n * b.d + b.n * a.d, a.d * b.d)
Sub(a, b) == R(a.n * b.d - b.n * a.d, a.d * b.d)
Mul(a, b) == R(a.n * b.n, a.d * b.d)
\* a / b for b # 0 (a zero divisor raises: see Div0)
Div(a, b) == R(a.n * b.d, a.d * b.n)
Lt(a, b) == a.n * b.d < b.n * a.d
Le(a, b) == a.n * b.d <= b.n * a.d
Gt(a, b) == Lt(b, a)
Ge(a, b) == Le(b, a)
\* Python's min(a, b) and max(a, b): the first argument unless the second is
\* strictly smaller (larger)
Min(a, b) == IF Lt(b, a) THEN b ELSE a
Max(a, b) == IF Gt(b, a) THEN b ELSE a

\* Python truthiness of an optional number: None and 0 are falsy
Falsy(x) == x = NONE \/ (IsNum(x) /\ x.n = 0 /\ x.d # 0)

\* x * 10 ^ k as a whole part q and a remainder r / d, 0 <= r < d, found
\* digit by digit from x = q + r / d
RECURSIVE shift_digits(_, _, _, _)
shift_digits(q, r, d, k) ==
    IF k = 0 THEN [q |-> q, r |-> r]
    ELSE shift_digits(q * 10 + (r * 10) \div d, (r * 10) % d, d, k - 1)

\* Python's round(x, ndigits) for ndigits >= 0: halves go to the even
\* neighbour
round(x, ndigits) ==
    IF x.d = 0 THEN x
    ELSE LET s == shift_digits(x.n \div x.d, x.n % x.d, x.d, ndigits)
         IN  IF 2 * s.r > x.d \/ (2 * s.r = x.d /\ s.q % 2 = 1)
             THEN R(s.q + 1, 10 ^ ndigits)
             ELSE R(s.q, 10 ^ ndigits)

\* round_ (geolysis.core.utils): the value rounded to two decimal places
round_(x) == round(x, 2)

-----------------------------------------------------------------------------
(* str.casefold on ASCII text *)

UPPER == <<"A", "B", "C", "D", "E", "F", "G", "H", "I", "J", "K", "L", "M",
           "N", "O", "P", "Q", "R", "S", "T", "U", "V", "W", "X", "Y", "Z">>
LOWER == <<"a", "b", "c", "d", "e", "f", "g", "h", "i", "j", "k", "l", "m",
           "n", "o", "p", "q", "r", "s", "t", "u", "v", "w", "x", "y", "z">>

casefold_char(c) ==
    IF \E i \in DOMAIN UPPER : UPPER[i] = c
    THEN LOWER[CHOOSE i \in DOMAIN UPPER : UPPER[i] = c]
    ELSE c

casefold(s) == [i \in DOMAIN s |-> casefold_char(s[i])]

-----------------------------------------------------------------------------
(* geolysis/core/foundation.py *)

\* class Shape(enum.StrEnum): enum.auto() gives the lower-cased member name
Shape_STRIP == <<"s", "t", "r", "i", "p">>
Shape_CIRCLE == <<"c", "i", "r", "c", "l", "e">>
Shape_SQUARE == <<"s", "q", "u", "a", "r", "e">>
Shape_RECTANGLE == <<"r", "e", "c", "t", "a", "n", "g", "l", "e">>
Shape == {Shape_STRIP, Shape_CIRCLE, Shape_SQUARE, Shape_RECTANGLE}

\* attrs.validators.gt(bound) / ge(bound)
validators_gt(val, bound) == Gt(val, bound)
validators_ge(val, bound) == Ge(val, bound)

StripFooting(width, length) ==
    IF ~validators_gt(width, Zero) THEN Raise("ValueError")
    ELSE IF ~validators_gt(length, Zero) THEN Raise("ValueError")
    ELSE Ok([cls |-> "StripFooting", width |-> width, length |-> length,
             shape_ |-> Shape_STRIP])

CircularFooting(diameter) ==
    IF ~validators_gt(diameter, Zero) THEN Raise("ValueError")
    ELSE Ok([cls |-> "CircularFooting", diameter |-> diameter,
             shape_ |-> Shape_CIRCLE])

SquareFooting(width) ==
    IF ~validators_gt(width, Zero) THEN Raise("ValueError")
    ELSE Ok([cls |-> "SquareFooting", width |-> width,
             shape_ |-> Shape_SQUARE])

RectangularFooting(width, length) ==
    IF ~validators_gt(width, Zero) THEN Raise("ValueError")
    ELSE IF ~validators_gt(length, Zero) THEN Raise("ValueError")
    ELSE Ok([cls |-> "RectangularFooting", width |-> width, length |-> length,
             shape_ |-> Shape_RECTANGLE])

\* _ref_field.__get__ of the footing classes: CircularFooting.width and
\* .length read diameter, SquareFooting.length reads width
footing_attr(footing, name) ==
    IF footing.cls = "CircularFooting" /\ name \in {"width", "length"}
    THEN footing.diameter
    ELSE IF footing.cls = "SquareFooting" /\ name = "length"
    THEN footing.width
    ELSE footing[name]

\* FoundationSize without the eccentricity validator
FoundationSize_ecc_unchecked(depth, footing_size, eccentricity) ==
    IF ~validators_gt(depth, Zero) THEN Raise("ValueError")
    ELSE Ok([depth |-> depth, footing_size |-> footing_size,
             eccentricity |-> eccentricity])

\* FoundationSize that accepts an eccentricity only below half the width
FoundationSize_ecc_bounded(depth, footing_size, eccentricity) ==
    IF ~validators_gt(depth, Zero) THEN Raise("ValueError")
    ELSE IF ~validators_ge(eccentricity, Zero) THEN Raise("ValueError")
    ELSE IF Ge(Mul(R(2, 1), eccentricity), footing_attr(footing_size, "width"))
    THEN Raise("ValueError")
    ELSE Ok([depth |-> depth, footing_size |-> footing_size,
             eccentricity |-> eccentricity])

FoundationSize(depth, footing_size, eccentricity) ==
    IF ~validators_gt(depth, Zero) THEN Raise("ValueError")
    ELSE IF ~validators_ge(eccentricity, Zero) THEN Raise("ValueError")
    ELSE Ok([depth |-> depth, footing_size |-> footing_size,
             eccentricity |-> eccentricity])

\* FoundationSize.width / .length / .footing_shape: _ref_field.__get__
\* through footing_size
fs_width(f) == footing_attr(f.footing_size, "width")
fs_length(f) == footing_attr(f.footing_size, "length")
fs_footing_shape(f) == footing_attr(f.footing_size, "shape_")

effective_width(f) == Sub(fs_width(f), Mul(R(2, 1), f.eccentricity))

\* create_foundation comparing the tag as given, without casefold
create_foundation_exact_tag(depth, width, length, eccentricity, footing_shape) ==
    LET shape == footing_shape
        footing_size ==
            IF shape = Shape_STRIP THEN StripFooting(width, INF)
            ELSE IF shape = Shape_SQUARE THEN SquareFooting(width)
            ELSE IF shape = Shape_CIRCLE THEN CircularFooting(width)
            ELSE IF shape = Shape_RECTANGLE
            THEN IF Falsy(length) THEN Raise("ValueError")
                 ELSE RectangularFooting(width, length)
            ELSE Raise("TypeError")
    IN  IF ~IsOk(footing_size) THEN footing_size
        ELSE FoundationSize(depth, footing_size.val, eccentricity)

create_foundation(depth, width, length, eccentricity, footing_shape) ==
    LET shape == casefold(footing_shape)
        footing_size ==
            IF shape = Shape_STRIP THEN StripFooting(width, INF)
            ELSE IF shape = Shape_SQUARE THEN SquareFooting(width)
            ELSE IF shape = Shape_CIRCLE THEN CircularFooting(width)
            ELSE IF shape = Shape_RECTANGLE
            THEN IF Falsy(length) THEN Raise("ValueError")
                 ELSE RectangularFooting(width, length)
            ELSE Raise("TypeError")
    IN  IF ~IsOk(footing_size) THEN footing_size
        ELSE FoundationSize(depth, footing_size.val, eccentricity)

\* the arguments the model passes to create_foundation
Depths == {R(-1, 1), Zero, R(1, 1), R(3, 2)}
Widths == {R(-1, 1), Zero, R(6, 5), R(2, 1)}
Lengths == {NONE, R(-5, 2), Zero, R(5, 2)}
Eccentricities == {R(-1, 10), Zero, R(3, 5), R(1, 1)}
StripTags == {Shape_STRIP, <<"S", "T", "R", "I", "P">>,
              <<"S", "t", "r", "i", "p">>}
SquareTags == {Shape_SQUARE, <<"S", "q", "u", "a", "r", "e">>,
               <<"s", "Q", "U", "A", "R", "e">>}
CircleTags == {Shape_CIRCLE, <<"C", "i", "R", "c", "L", "e">>,
               <<"C", "I", "R", "C", "L", "E">>}
RectangleTags == {Shape_RECTANGLE,
                  <<"R", "E", "C", "T", "a", "n", "g", "l", "e">>,
                  <<"R", "e", "c", "t", "a", "n", "g", "l", "e">>}
UnknownTags == {<<"o", "v", "a", "l">>, <<"s", "t", "r", "i", "p", "s">>,
                <<"s", "q", "u", "a", "r">>, <<>>,
                <<"s", "t", "r", "i", "p", " ">>, <<"R", "E", "C", "T">>}
Tags == StripTags \cup SquareTags \cup CircleTags \cup RectangleTags
            \cup UnknownTags

\* create_foundation reads and writes no state: a second call reaches nothing
\* a first call does not, so the model makes one call per analysis
CreateFoundation ==
    /\ fs_call = NONE
    /\ \E depth \in Depths, width \in Widths, length \in Lengths,
          eccentricity \in Eccentricities, footing_shape \in Tags :
          /\ fs_call' = [depth |-> depth, width |-> width, length |-> length,
                         eccentricity |-> eccentricity,
                         footing_shape |-> footing_shape]
          /\ fs_ret' = create_foundation(depth, width, length, eccentricity,
                                         footing_shape)
          /\ fs' = IF IsOk(fs_ret') THEN fs_ret'.val ELSE NONE
    /\ UNCHANGED <<ubc_vars, abc_vars, tbc_vars, hf_vars>>

InitFoundation ==
    /\ fs = NONE /\ fs_call = NONE /\ fs_ret = NONE
    /\ ubc = NONE /\ ubc_call = NONE /\ ubc_ret = NONE
    /\ abc = NONE /\ abc_call = NONE /\ abc_ret = NONE
    /\ tbc = NONE /\ tbc_call = NONE /\ tbc_ret = NONE /\ nq_cache = {}
    /\ hf_call = NONE /\ hf_ret = NONE

NextFoundation == CreateFoundation

SpecFoundation == InitFoundation /\ [][NextFoundation]_vars

\* setattr on a footing: attrs.define runs the validator of a field on
\* assignment; CircularFooting.width and .length and SquareFooting.length
\* are _ref_field descriptors, whose __set__ assigns the field they refer to
footing_setattr(footing, name, value) ==
    LET field == IF footing.cls = "CircularFooting"
                       /\ name \in {"width", "length"}
                 THEN "diameter"
                 ELSE IF footing.cls = "SquareFooting" /\ name = "length"
                 THEN "width"
                 ELSE name
    IN  IF field \in {"width", "length", "diameter"}
               /\ ~validators_gt(value, Zero)
        THEN Raise("ValueError")
        ELSE Ok([footing EXCEPT ![field] = value])

\* setattr on a FoundationSize: depth and eccentricity are validated fields;
\* width, length and footing_shape are _ref_field descriptors whose __set__
\* assigns width, length and shape_ of footing_size
FoundationSize_setattr(f, name, value) ==
    IF name = "depth"
    THEN IF ~validators_gt(value, Zero) THEN Raise("ValueError")
         ELSE Ok([f EXCEPT !.depth = value])
    ELSE IF name = "eccentricity"
    THEN IF ~validators_ge(value, Zero) THEN Raise("ValueError")
         ELSE Ok([f EXCEPT !.eccentricity = value])
    ELSE LET r == footing_setattr(f.footing_size,
                      IF name = "footing_shape" THEN "shape_" ELSE name,
                      value)
         IN  IF IsOk(r) THEN Ok([f EXCEPT !.footing_size = r.val]) ELSE r

\* the values the model assigns
AssignedNumbers == {R(-1, 1), Zero, R(3, 1)}
AssignedShapes == {Shape_CIRCLE, Shape_STRIP}

\* foundation_size.<name> = value
SetFoundationAttr(name, value) ==
    LET r == FoundationSize_setattr(fs, name, value)
    IN  /\ fs_call' = [op |-> "setattr", name |-> name, value |-> value]
        /\ fs_ret' = IF IsOk(r) THEN Ok(NONE) ELSE r
        /\ fs' = IF IsOk(r) THEN r.val ELSE fs
        /\ UNCHANGED <<ubc_vars, abc_vars, tbc_vars, hf_vars>>

AssignFoundationNumber ==
    /\ fs # NONE
    /\ \E name \in {"depth", "eccentricity", "width", "length"},
          value \in AssignedNumbers : SetFoundationAttr(name, value)

AssignFoundationShape ==
    /\ fs # NONE
    /\ \E value \in AssignedShapes :
          SetFoundationAttr("footing_shape", value)

NextFoundationSize ==
    \/ CreateFoundation
    \/ AssignFoundationNumber
    \/ AssignFoundationShape

SpecFoundationSize == InitFoundation /\ [][NextFoundationSize]_vars

-----------------------------------------------------------------------------
(* geolysis/bearing_capacity/ubc/__init__.py *)

RaiseMsg(e, msg) == [tag |-> "raise", exc |-> e, msg |-> msg]

\* tan and arctan of geolysis.utils work in degrees.  They are tabulated to
\* four decimals at the friction angles the model uses: tan at the angle,
\* arctan at two thirds of that tangent.
TAN == { <<R(0, 1), R(0, 1)>>, <<R(1, 200000000), R(0, 1)>>,
         <<R(1, 2), R(87, 10000)>>, <<R(1, 1), R(175, 10000)>>,
         <<R(20, 1), R(3640, 10000)>>, <<R(25, 1), R(4663, 10000)>>,
         <<R(35, 1), R(7002, 10000)>>, <<R(45, 1), R(1, 1)>> }
ARCTAN == { <<R(0, 1), R(0, 1)>>, <<R(91, 375), R(136401, 10000)>>,
            <<R(4663, 15000), R(172687, 10000)>>,
            <<R(1167, 2500), R(250232, 10000)>> }
tan(x) == (CHOOSE p \in TAN : p[1] = x)[2]
arctan(y) == (CHOOSE p \in ARCTAN : p[1] = y)[2]

\* @property friction_angle
get_friction_angle(self) ==
    IF self.apply_local_shear
    THEN arctan(Mul(R(2, 3), tan(self._friction_angle)))
    ELSE self._friction_angle

\* @friction_angle.setter
set_friction_angle(self, val) ==
    IF Lt(val, Zero)
    THEN RaiseMsg("ValueError", "Friction angle must be greater than 0.")
    ELSE Ok([self EXCEPT !._friction_angle = val])

\* @property cohesion
get_cohesion(self) ==
    IF self.apply_local_shear THEN Mul(R(2, 3), self._cohesion)
    ELSE self._cohesion

\* @cohesion.setter
set_cohesion(self, val) ==
    IF Lt(val, Zero)
    THEN RaiseMsg("ValueError", "Cohesion must be greater than 0.")
    ELSE Ok([self EXCEPT !._cohesion = val])

\* @property load_angle
get_load_angle(self) == self._load_angle

\* the load_angle setter with the upper bound exclusive
set_load_angle_lt90(self, val) ==
    IF Le(Zero, val) /\ Lt(val, R(90, 1))
    THEN Ok([self EXCEPT !._load_angle = val])
    ELSE RaiseMsg("ValueError",
                  "Load angle must be between 0 and 90 degrees.")

\* @load_angle.setter
set_load_angle(self, val) ==
    IF Le(Zero, val) /\ Le(val, R(90, 1))
    THEN Ok([self EXCEPT !._load_angle = val])
    ELSE RaiseMsg("ValueError",
                  "Load angle must be between 0 and 90 degrees.")

\* moist_unit_wgt, ground_water_level, foundation_size and apply_local_shear
\* are plain attributes: assignment stores whatever it is given
set_attribute(self, name, val) == Ok([self EXCEPT ![name] = val])

\* an instance before __init__ has assigned anything; bcf holds the values
\* the concrete subclass returns from n_c, n_q and n_gamma
new_instance(cls, bcf) ==
    [cls |-> cls, bcf |-> bcf, _friction_angle |-> NONE, _cohesion |-> NONE,
     moist_unit_wgt |-> NONE, _load_angle |-> NONE,
     ground_water_level |-> NONE, foundation_size |-> NONE,
     apply_local_shear |-> NONE]

\* UltimateBearingCapacity.__init__ that does not look for moist_unit_wgt
UltimateBearingCapacity_init_two_keys(self, soil_properties, foundation_size, load_angle, ground_water_level, apply_local_shear) ==
    IF "friction_angle" \notin DOMAIN soil_properties
    THEN RaiseMsg("ValueError", "friction_angle is required.")
    ELSE IF "cohesion" \notin DOMAIN soil_properties
    THEN RaiseMsg("ValueError", "cohesion is required.")
    ELSE
      LET r1 == set_friction_angle(self, soil_properties["friction_angle"])
          r2 == IF IsOk(r1)
                THEN set_cohesion(r1.val, soil_properties["cohesion"])
                ELSE r1
          r3 == IF ~IsOk(r2) THEN r2
                ELSE IF "moist_unit_wgt" \notin DOMAIN soil_properties
                THEN set_attribute(r2.val, "moist_unit_wgt", R(18, 1))
                ELSE set_attribute(r2.val, "moist_unit_wgt",
                                   soil_properties["moist_unit_wgt"])
          r4 == IF IsOk(r3) THEN set_load_angle(r3.val, load_angle) ELSE r3
      IN  IF ~IsOk(r4) THEN r4
          ELSE Ok([r4.val EXCEPT !.ground_water_level = ground_water_level,
                                 !.foundation_size = foundation_size,
                                 !.apply_local_shear = apply_local_shear])

\* UltimateBearingCapacity.__init__
UltimateBearingCapacity_init(self, soil_properties, foundation_size, load_angle, ground_water_level, apply_local_shear) ==
    IF "friction_angle" \notin DOMAIN soil_properties
    THEN RaiseMsg("ValueError", "friction_angle is required.")
    ELSE IF "cohesion" \notin DOMAIN soil_properties
    THEN RaiseMsg("ValueError", "cohesion is required.")
    ELSE IF "moist_unit_wgt" \notin DOMAIN soil_properties
    THEN RaiseMsg("ValueError", "moist_unit_wgt is required.")
    ELSE
      LET r1 == set_friction_angle(self, soil_properties["friction_angle"])
          r2 == IF IsOk(r1)
                THEN set_cohesion(r1.val, soil_properties["cohesion"])
                ELSE r1
          r3 == IF IsOk(r2)
                THEN set_attribute(r2.val, "moist_unit_wgt",
                                   soil_properties["moist_unit_wgt"])
                ELSE r2
          r4 == IF IsOk(r3) THEN set_load_angle(r3.val, load_angle) ELSE r3
      IN  IF ~IsOk(r4) THEN r4
          ELSE Ok([r4.val EXCEPT !.ground_water_level = ground_water_level,
                                 !.foundation_size = foundation_size,
                                 !.apply_local_shear = apply_local_shear])

\* the product of the factors in s, read left to right: the first factor
\* that raises decides
RECURSIVE product(_)
product(s) ==
    IF s = <<>> THEN Ok(One)
    ELSE IF ~IsOk(Head(s)) THEN Head(s)
    ELSE LET rest == product(Tail(s))
         IN  IF IsOk(rest) THEN Ok(Mul(Head(s).val, rest.val)) ELSE rest

\* the sum of the terms in s, read left to right
RECURSIVE sum(_)
sum(s) ==
    IF s = <<>> THEN Ok(Zero)
    ELSE IF ~IsOk(Head(s)) THEN Head(s)
    ELSE LET rest == sum(Tail(s))
         IN  IF IsOk(rest) THEN Ok(Add(Head(s).val, rest.val)) ELSE rest

\* the factor properties: n_c, n_q, n_gamma are abstract and come from the
\* concrete subclass; the shape, depth and inclination factors default to 1.0
n_c(self) == Ok(self.bcf.n_c)
n_q(self) == Ok(self.bcf.n_q)
n_gamma(self) == Ok(self.bcf.n_gamma)
s_c(self) == Ok(One)
s_q(self) == Ok(One)
s_gamma(self) == Ok(One)
d_c(self) == Ok(One)
d_q(self) == Ok(One)
d_gamma(self) == Ok(One)
i_c(self) == Ok(One)
i_q(self) == Ok(One)
i_gamma(self) == Ok(One)

_cohesion_term(self, coef) ==
    product(<<Ok(coef), Ok(get_cohesion(self)), n_c(self), s_c(self),
              d_c(self), i_c(self)>>)

\* the water correction of _surcharge_term without the cap at 1 and with
\* a = depth - ground_water_level unclamped
surcharge_water_corr_unclamped(depth, ground_water_level) ==
    IF ground_water_level = INF THEN Ok(One)
    ELSE Ok(Sub(One, Div(Mul(R(1, 2), Sub(depth, ground_water_level)),
                         depth)))

\* the water correction of _surcharge_term
surcharge_water_corr(depth, ground_water_level) ==
    IF ground_water_level = INF THEN Ok(One)
    ELSE LET a == Max(Sub(depth, ground_water_level), Zero)
         IN  IF depth = Zero THEN Raise("ZeroDivisionError")
             ELSE Ok(Min(Sub(One, Div(Mul(R(1, 2), a), depth)), One))

_surcharge_term(self) ==
    LET depth == self.foundation_size.depth
        water_corr == surcharge_water_corr(depth, self.ground_water_level)
        eop == Mul(self.moist_unit_wgt, depth)
    IN  IF ~IsOk(water_corr) THEN water_corr
        ELSE product(<<Ok(eop), n_q(self), s_q(self), d_q(self), i_q(self),
                       water_corr>>)

\* the water correction of _embedment_term
embedment_water_corr(depth, width, ground_water_level) ==
    IF ground_water_level = INF THEN Ok(One)
    ELSE LET b == Max(Sub(ground_water_level, depth), Zero)
         IN  IF width = Zero THEN Raise("ZeroDivisionError")
             ELSE Ok(Min(Add(R(1, 2), Div(Mul(R(1, 2), b), width)), One))

_embedment_term(self, coef) ==
    LET depth == self.foundation_size.depth
        width == effective_width(self.foundation_size)
        water_corr ==
            embedment_water_corr(depth, width, self.ground_water_level)
    IN  IF ~IsOk(water_corr) THEN water_corr
        ELSE product(<<Ok(coef), Ok(self.moist_unit_wgt), Ok(width),
                       n_gamma(self), s_gamma(self), d_gamma(self),
                       i_gamma(self), water_corr>>)

\* UltimateBearingCapacity.bearing_capacity
bearing_capacity(self) ==
    sum(<<_cohesion_term(self, One), _surcharge_term(self),
          _embedment_term(self, R(1, 2))>>)

-----------------------------------------------------------------------------
(* geolysis/core/bearing_capacity/ubc_4_soils/hansen_ubc.py *)

\* sin, cos and cot of geolysis.core.utils work in degrees; to four decimals
\* at the angles the model uses
SIN == { <<R(0, 1), R(0, 1)>>, <<R(20, 1), R(3420, 10000)>>,
         <<R(25, 1), R(4226, 10000)>>, <<R(35, 1), R(5736, 10000)>>,
         <<R(45, 1), R(7071, 10000)>>, <<R(60, 1), R(8660, 10000)>>,
         <<R(90, 1), R(1, 1)>> }
COS == { <<R(0, 1), R(1, 1)>>, <<R(45, 1), R(7071, 10000)>>,
         <<R(60, 1), R(5000, 10000)>>, <<R(90, 1), R(0, 1)>> }
COT == { <<R(1, 2), R(1145887, 10000)>>, <<R(1, 1), R(572900, 10000)>>,
         <<R(20, 1), R(27475, 10000)>>, <<R(25, 1), R(21445, 10000)>>,
         <<R(35, 1), R(14281, 10000)>>, <<R(45, 1), R(1, 1)>> }
sin(x) == (CHOOSE p \in SIN : p[1] = x)[2]
cos(x) == (CHOOSE p \in COS : p[1] = x)[2]
cot(x) == (CHOOSE p \in COT : p[1] = x)[2]

\* tan(45 + sfa / 2) ** 2 * exp(PI * tan(sfa)) to four decimals
TAN2_EXP == { <<R(0, 1), R(1, 1)>>, <<R(1, 200000000), R(1, 1)>>,
              <<R(1, 2), R(10459, 10000)>>, <<R(1, 1), R(10939, 10000)>>,
              <<R(20, 1), R(63994, 10000)>>, <<R(25, 1), R(106621, 10000)>>,
              <<R(35, 1), R(332961, 10000)>>,
              <<R(45, 1), R(1348738, 10000)>> }
tan2_exp(sfa) == (CHOOSE p \in TAN2_EXP : p[1] = sfa)[2]

\* isclose (geolysis.core.utils): an equality test with a floating-point
\* tolerance, here |a - b| <= 1e-8
isclose(a, b) ==
    LET diff == Sub(a, b) IN Abs(diff.n) <= diff.d \div 100000000

\* 2 * tan(sfa) * (1 - sin(sfa)) ** 2 to four decimals
TAN_SIN2 == { <<R(0, 1), R(0, 1)>>, <<R(1, 200000000), R(0, 1)>>,
              <<R(1, 2), R(172, 10000)>>, <<R(1, 1), R(337, 10000)>>,
              <<R(20, 1), R(3152, 10000)>>, <<R(25, 1), R(3109, 10000)>> }
tan_sin2(sfa) == (CHOOSE p \in TAN_SIN2 : p[1] = sfa)[2]

\* arctan in radians, to four decimals, at the depth to width ratios above 1
ARCTAN_RAD == { <<R(5, 4), R(8961, 10000)>>, <<R(3, 2), R(9828, 10000)>>,
                <<R(2, 1), R(11071, 10000)>> }

\* d2w (geolysis.core.bearing_capacity.ubc_4_soils): the depth to width
\* ratio, replaced by its arctan when it exceeds 1
d2w(f_d, f_w) ==
    LET ratio == Div(f_d, f_w)
    IN  IF Gt(ratio, One) THEN (CHOOSE p \in ARCTAN_RAD : p[1] = ratio)[2]
        ELSE ratio

\* A call f(*args) of a method that takes n positional arguments besides
\* cls raises TypeError unless it is given n.
arity_ok(args, n) == Len(args) = n

HansenBearingCapacityFactor_n_q(args) ==
    IF ~arity_ok(args, 1) THEN Raise("TypeError")
    ELSE Ok(round_(tan2_exp(args[1])))

HansenBearingCapacityFactor_n_c(args) ==
    IF ~arity_ok(args, 1) THEN Raise("TypeError")
    ELSE LET sfa == args[1]
         IN  IF isclose(sfa, Zero) THEN Ok(round_(R(514, 100)))
             ELSE Ok(round_(Mul(cot(sfa),
                     Sub(HansenBearingCapacityFactor_n_q(<<sfa>>).val, One))))

HansenBearingCapacityFactor_n_gamma(args) ==
    IF ~arity_ok(args, 1) THEN Raise("TypeError")
    ELSE LET sfa == args[1]
         IN  Ok(round_(Mul(Mul(R(18, 10),
                     Sub(HansenBearingCapacityFactor_n_q(<<sfa>>).val, One)),
                     tan(sfa))))

HansenShapeFactor_s_c(args) ==
    IF ~arity_ok(args, 3) THEN Raise("TypeError")
    ELSE LET f_w == args[1]
             f_l == args[2]
             footing_type == args[3]
         IN  IF footing_type = Shape_STRIP THEN Ok(round_(R(10, 1)))
             ELSE IF footing_type = Shape_RECTANGLE
             THEN Ok(round_(Add(One, Div(Mul(R(2, 10), f_w), f_l))))
             ELSE IF footing_type \in {Shape_SQUARE, Shape_CIRCLE}
             THEN Ok(round_(R(13, 10)))
             ELSE Raise("ValueError")

HansenShapeFactor_s_q(args) ==
    IF ~arity_ok(args, 3) THEN Raise("TypeError")
    ELSE LET f_w == args[1]
             f_l == args[2]
             footing_type == args[3]
         IN  IF footing_type = Shape_STRIP THEN Ok(round_(One))
             ELSE IF footing_type = Shape_RECTANGLE
             THEN Ok(round_(Add(One, Div(Mul(R(2, 10), f_w), f_l))))
             ELSE IF footing_type \in {Shape_SQUARE, Shape_CIRCLE}
             THEN Ok(round_(R(12, 10)))
             ELSE Raise("ValueError")

\* s_gamma that takes a footing_type it does not know for a strip
HansenShapeFactor_s_gamma_default(args) ==
    IF ~arity_ok(args, 3) THEN Raise("TypeError")
    ELSE IF args[3] = Shape_RECTANGLE
    THEN Ok(round_(Sub(One, Div(Mul(R(4, 10), args[1]), args[2]))))
    ELSE IF args[3] = Shape_SQUARE THEN Ok(round_(R(8, 10)))
    ELSE IF args[3] = Shape_CIRCLE THEN Ok(round_(R(6, 10)))
    ELSE Ok(round_(One))

HansenShapeFactor_s_gamma(args) ==
    IF ~arity_ok(args, 3) THEN Raise("TypeError")
    ELSE LET f_w == args[1]
             f_l == args[2]
             footing_type == args[3]
         IN  IF footing_type = Shape_STRIP THEN Ok(round_(One))
             ELSE IF footing_type = Shape_RECTANGLE
             THEN Ok(round_(Sub(One, Div(Mul(R(4, 10), f_w), f_l))))
             ELSE IF footing_type = Shape_SQUARE THEN Ok(round_(R(8, 10)))
             ELSE IF footing_type = Shape_CIRCLE THEN Ok(round_(R(6, 10)))
             ELSE Raise("ValueError")

HansenDepthFactor_d_c(args) ==
    IF ~arity_ok(args, 2) THEN Raise("TypeError")
    ELSE LET f_d == args[1]
             f_w == args[2]
         IN  IF f_w = Zero THEN Raise("ZeroDivisionError")
             ELSE Ok(round_(Add(One, Mul(R(4, 10), d2w(f_d, f_w)))))

\* d_q taking the d_c branch from 25 degrees on
HansenDepthFactor_d_q_from25(args) ==
    IF ~arity_ok(args, 3) THEN Raise("TypeError")
    ELSE LET r == HansenDepthFactor_d_c(<<args[2], args[3]>>)
         IN  IF Ge(args[1], R(25, 1))
             THEN IF IsOk(r) THEN Ok(round_(r.val)) ELSE r
             ELSE IF args[3] = Zero THEN Raise("ZeroDivisionError")
             ELSE Ok(round_(Add(One, Mul(tan_sin2(args[1]),
                                         d2w(args[2], args[3])))))

HansenDepthFactor_d_q(args) ==
    IF ~arity_ok(args, 3) THEN Raise("TypeError")
    ELSE LET sfa == args[1]
             f_d == args[2]
             f_w == args[3]
         IN  IF Gt(sfa, R(25, 1))
             THEN LET r == HansenDepthFactor_d_c(<<f_d, f_w>>)
                  IN  IF IsOk(r) THEN Ok(round_(r.val)) ELSE r
             ELSE IF f_w = Zero THEN Raise("ZeroDivisionError")
             ELSE Ok(round_(Add(One, Mul(tan_sin2(sfa), d2w(f_d, f_w)))))

HansenDepthFactor_d_gamma(args) ==
    IF ~arity_ok(args, 0) THEN Raise("TypeError") ELSE Ok(round_(One))

HansenInclinationFactor_i_c(args) ==
    IF ~arity_ok(args, 4) THEN Raise("TypeError")
    ELSE LET cohesion == args[1]
             load_angle == args[2]
             f_w == args[3]
             f_l == args[4]
             den == Mul(Mul(Mul(R(2, 1), cohesion), f_w), f_l)
         IN  IF den = Zero THEN Raise("ZeroDivisionError")
             ELSE Ok(round_(Sub(One, Div(cos(load_angle), den))))

\* i_q and i_gamma are not decorated with round_
HansenInclinationFactor_i_q(args) ==
    IF ~arity_ok(args, 1) THEN Raise("TypeError")
    ELSE LET load_angle == args[1]
         IN  IF sin(load_angle) = Zero THEN Raise("ZeroDivisionError")
             ELSE Ok(Sub(One, Div(Mul(R(15, 10), cos(load_angle)),
                                  sin(load_angle))))

HansenInclinationFactor_i_gamma(args) ==
    IF ~arity_ok(args, 1) THEN Raise("TypeError")
    ELSE LET r == HansenInclinationFactor_i_q(<<args[1]>>)
         IN  IF IsOk(r) THEN Ok(Mul(r.val, r.val)) ELSE r

\* UltimateBearingCapacity.__init__ of
\* geolysis.core.bearing_capacity.ubc_4_soils: the three soil properties are
\* required, friction angle and cohesion must not be negative; e is the load
\* eccentricity, which the object reads from its foundation_size
core_UltimateBearingCapacity_init(self, soil_properties, foundation_size, water_level, local_shear_failure, e) ==
    IF "friction_angle" \notin DOMAIN soil_properties
    THEN RaiseMsg("ValueError", "friction_angle is required.")
    ELSE IF "cohesion" \notin DOMAIN soil_properties
    THEN RaiseMsg("ValueError", "cohesion is required.")
    ELSE IF "moist_unit_wgt" \notin DOMAIN soil_properties
    THEN RaiseMsg("ValueError", "moist_unit_wgt is required.")
    ELSE
      LET r1 == set_friction_angle(self, soil_properties["friction_angle"])
          r2 == IF IsOk(r1)
                THEN set_cohesion(r1.val, soil_properties["cohesion"])
                ELSE r1
      IN  IF ~IsOk(r2) THEN r2
          ELSE Ok([r2.val EXCEPT
                     !.moist_unit_wgt = soil_properties["moist_unit_wgt"],
                     !.ground_water_level = water_level,
                     !.foundation_size = foundation_size,
                     !.apply_local_shear = local_shear_failure])

\* self.sfa of the same class: the friction angle the factors are computed
\* from
sfa(self) == get_friction_angle(self)

\* _get_footing_info(self): width, length and shape of the footing
_get_footing_info(self) ==
    <<fs_width(self.foundation_size), fs_length(self.foundation_size),
      fs_footing_shape(self.foundation_size)>>

\* HansenUBC.__init__
HansenUBC_init(self, soil_properties, foundation_size, water_level, local_shear_failure, load_angle_incl, e) ==
    LET r == core_UltimateBearingCapacity_init(self, soil_properties,
                 foundation_size, water_level, local_shear_failure, e)
        r2 == IF IsOk(r) THEN set_load_angle(r.val, load_angle_incl) ELSE r
    IN  IF ~IsOk(r2) THEN r2
        ELSE Ok([r2.val EXCEPT !.bcf = "HansenBearingCapacityFactor"])

\* the factor properties of HansenUBC
HansenUBC_n_c(self) == HansenBearingCapacityFactor_n_c(<<sfa(self)>>)
HansenUBC_n_q(self) == HansenBearingCapacityFactor_n_q(<<sfa(self)>>)
HansenUBC_n_gamma(self) == HansenBearingCapacityFactor_n_gamma(<<sfa(self)>>)
HansenUBC_s_c(self) == HansenShapeFactor_s_c(_get_footing_info(self))
HansenUBC_s_q(self) == HansenShapeFactor_s_q(_get_footing_info(self))
HansenUBC_s_gamma(self) == HansenShapeFactor_s_gamma(_get_footing_info(self))
HansenUBC_d_c(self) == HansenDepthFactor_d_c(<<self.foundation_size>>)
HansenUBC_d_q(self) ==
    HansenDepthFactor_d_q(<<sfa(self), self.foundation_size>>)
HansenUBC_d_gamma(self) == HansenDepthFactor_d_gamma(<<>>)
HansenUBC_i_c(self) ==
    HansenInclinationFactor_i_c(<<get_cohesion(self), get_load_angle(self),
                                  fs_footing_shape(self.foundation_size)>>)
HansenUBC_i_q(self) == HansenInclinationFactor_i_q(<<get_load_angle(self)>>)
HansenUBC_i_gamma(self) ==
    HansenInclinationFactor_i_gamma(<<get_load_angle(self)>>)

HansenFactorNames ==
    {"n_c", "n_q", "n_gamma", "s_c", "s_q", "s_gamma", "d_c", "d_q",
     "d_gamma", "i_c", "i_q", "i_gamma"}

\* hansen_ubc.<name> for a factor property
HansenUBC_factor(self, name) ==
    CASE name = "n_c" -> HansenUBC_n_c(self)
      [] name = "n_q" -> HansenUBC_n_q(self)
      [] name = "n_gamma" -> HansenUBC_n_gamma(self)
      [] name = "s_c" -> HansenUBC_s_c(self)
      [] name = "s_q" -> HansenUBC_s_q(self)
      [] name = "s_gamma" -> HansenUBC_s_gamma(self)
      [] name = "d_c" -> HansenUBC_d_c(self)
      [] name = "d_q" -> HansenUBC_d_q(self)
      [] name = "d_gamma" -> HansenUBC_d_gamma(self)
      [] name = "i_c" -> HansenUBC_i_c(self)
      [] name = "i_q" -> HansenUBC_i_q(self)
      [] name = "i_gamma" -> HansenUBC_i_gamma(self)

\* _coh_expr, _surcharge_expr and _emb_expr of the base class: the three
\* terms of the capacity without their leading coefficients
_coh_expr(self) ==
    product(<<Ok(get_cohesion(self)), HansenUBC_n_c(self),
              HansenUBC_s_c(self), HansenUBC_d_c(self), HansenUBC_i_c(self)>>)

_surcharge_expr(self) ==
    LET depth == self.foundation_size.depth
        water_corr == surcharge_water_corr(depth, self.ground_water_level)
        eop == Mul(self.moist_unit_wgt, depth)
    IN  IF ~IsOk(water_corr) THEN water_corr
        ELSE product(<<Ok(eop), HansenUBC_n_q(self), HansenUBC_s_q(self),
                       HansenUBC_d_q(self), HansenUBC_i_q(self),
                       water_corr>>)

_emb_expr(self) ==
    LET depth == self.foundation_size.depth
        width == effective_width(self.foundation_size)
        water_corr ==
            embedment_water_corr(depth, width, self.ground_water_level)
    IN  IF ~IsOk(water_corr) THEN water_corr
        ELSE product(<<Ok(self.moist_unit_wgt), Ok(width),
                       HansenUBC_n_gamma(self), HansenUBC_s_gamma(self),
                       HansenUBC_d_gamma(self), HansenUBC_i_gamma(self),
                       water_corr>>)

\* HansenUBC.bearing_capacity: 0.5 * self._emb_expr() is evaluated first
HansenUBC_bearing_capacity(self) ==
    LET _emb_t == product(<<Ok(R(1, 2)), _emb_expr(self)>>)
        r == IF ~IsOk(_emb_t) THEN _emb_t
             ELSE sum(<<_coh_expr(self), _surcharge_expr(self), _emb_t>>)
    IN  IF IsOk(r) THEN Ok(round_(r.val)) ELSE r

\* the arguments the model passes to the constructor and the setters
FrictionAngles == {R(-1, 1), Zero, R(25, 1)}
Cohesions == {R(-1, 1), Zero, R(15, 1)}
UnitWeights == {R(-1, 1), Zero, R(18, 1)}
LoadAngles == {R(-1, 2), Zero, R(90, 1), R(181, 2)}
WaterLevels == {INF, Zero, R(2, 5), R(3, 2), R(3, 1), R(6, 1)}
RequiredKeys == {"friction_angle", "cohesion", "moist_unit_wgt"}
CompleteSoilProperties ==
    {[friction_angle |-> f, cohesion |-> c, moist_unit_wgt |-> g] :
        f \in FrictionAngles, c \in Cohesions, g \in UnitWeights}
\* mappings lacking one or more required keys, and one with a key to spare
PartialSoilProperties ==
    {[k \in K |-> IF k = "friction_angle" THEN R(25, 1)
                  ELSE IF k = "cohesion" THEN R(15, 1) ELSE R(18, 1)] :
        K \in (SUBSET (RequiredKeys \cup {"dry_unit_wgt"})) \ {RequiredKeys}}
SoilProperties == CompleteSoilProperties \cup PartialSoilProperties
UBCFoundations ==
    {create_foundation(R(3, 2), R(2, 1), NONE, Zero, Shape_STRIP).val,
     create_foundation(R(1, 1), R(6, 5), NONE, Zero, Shape_STRIP).val,
     create_foundation(R(1, 1), R(6, 5), NONE, R(3, 5), Shape_SQUARE).val}
\* n_c, n_q, n_gamma of two concrete subclasses
BearingCapacityFactors ==
    {[n_c |-> R(289, 5), n_q |-> R(1036, 25), n_gamma |-> R(1163, 25)],
     [n_c |-> R(57, 10), n_q |-> One, n_gamma |-> Zero]}

\* a concrete subclass of UltimateBearingCapacity is constructed
ConstructUBC ==
    /\ ubc_call = NONE
    /\ \E bcf \in BearingCapacityFactors, sp \in SoilProperties,
          f \in UBCFoundations, la \in LoadAngles, gwl \in WaterLevels,
          als \in BOOLEAN :
          LET r == UltimateBearingCapacity_init(
                       new_instance("UltimateBearingCapacity", bcf),
                       sp, f, la, gwl, als)
          IN  /\ ubc_call' = [op |-> "__init__", soil_properties |-> sp,
                              foundation_size |-> f, load_angle |-> la,
                              ground_water_level |-> gwl,
                              apply_local_shear |-> als]
              /\ ubc_ret' = r
              /\ ubc' = IF IsOk(r) THEN r.val ELSE NONE
    /\ UNCHANGED <<fs_vars, abc_vars, tbc_vars, hf_vars>>

\* isinstance(obj, cls): the model keeps the class of an object in obj.cls
isinstance(obj, c) == obj # NONE /\ obj.cls = c

\* ubc.<name> = val: the object is replaced when the setter returns, and is
\* left as it was when the setter raises
Assign(name, val, r) ==
    /\ ubc_call' = [op |-> "set", name |-> name, val |-> val]
    /\ ubc_ret' = r
    /\ ubc' = IF IsOk(r) THEN r.val ELSE ubc
    /\ UNCHANGED <<fs_vars, abc_vars, tbc_vars, hf_vars>>

SetFrictionAngle ==
    /\ isinstance(ubc, "UltimateBearingCapacity")
    /\ \E val \in FrictionAngles :
          Assign("friction_angle", val, set_friction_angle(ubc, val))

SetCohesion ==
    /\ isinstance(ubc, "UltimateBearingCapacity")
    /\ \E val \in Cohesions : Assign("cohesion", val, set_cohesion(ubc, val))

SetMoistUnitWgt ==
    /\ isinstance(ubc, "UltimateBearingCapacity")
    /\ \E val \in UnitWeights :
          Assign("moist_unit_wgt", val,
                 set_attribute(ubc, "moist_unit_wgt", val))

SetLoadAngle ==
    /\ isinstance(ubc, "UltimateBearingCapacity")
    /\ \E val \in LoadAngles :
          Assign("load_angle", val, set_load_angle(ubc, val))

SetApplyLocalShear ==
    /\ isinstance(ubc, "UltimateBearingCapacity")
    /\ \E val \in BOOLEAN :
          Assign("apply_local_shear", val,
                 set_attribute(ubc, "apply_local_shear", val))

\* reading ubc.cohesion with a getter that stores what it returns
ReadCohesion_storing ==
    /\ isinstance(ubc, "UltimateBearingCapacity")
    /\ ubc_call' = [op |-> "get", name |-> "cohesion"]
    /\ ubc_ret' = Ok(get_cohesion(ubc))
    /\ ubc' = [ubc EXCEPT !._cohesion = get_cohesion(ubc)]
    /\ UNCHANGED <<fs_vars, abc_vars, tbc_vars, hf_vars>>

\* reading ubc.cohesion: the getter assigns nothing
ReadCohesion ==
    /\ isinstance(ubc, "UltimateBearingCapacity")
    /\ ubc_call' = [op |-> "get", name |-> "cohesion"]
    /\ ubc_ret' = Ok(get_cohesion(ubc))
    /\ UNCHANGED <<ubc, fs_vars, abc_vars, tbc_vars, hf_vars>>

\* reading ubc.friction_angle: the getter assigns nothing
ReadFrictionAngle ==
    /\ isinstance(ubc, "UltimateBearingCapacity")
    /\ ubc_call' = [op |-> "get", name |-> "friction_angle"]
    /\ ubc_ret' = Ok(get_friction_angle(ubc))
    /\ UNCHANGED <<ubc, fs_vars, abc_vars, tbc_vars, hf_vars>>

\* reading ubc.load_angle
ReadLoadAngle ==
    /\ isinstance(ubc, "UltimateBearingCapacity")
    /\ ubc_call' = [op |-> "get", name |-> "load_angle"]
    /\ ubc_ret' = Ok(get_load_angle(ubc))
    /\ UNCHANGED <<ubc, fs_vars, abc_vars, tbc_vars, hf_vars>>

\* the arguments the model passes to HansenUBC
HansenSoilProperties ==
    {[friction_angle |-> f, cohesion |-> c, moist_unit_wgt |-> R(18, 1)] :
        f \in {Zero, R(20, 1)}, c \in {Zero, R(20, 1)}}
HansenFoundations ==
    {create_foundation(R(3, 2), R(2, 1), NONE, Zero, Shape_SQUARE).val,
     create_foundation(R(1, 1), R(6, 5), NONE, Zero, Shape_STRIP).val}
HansenWaterLevels == {INF, R(2, 5)}
HansenLoadAngles == {Zero, R(45, 1), R(90, 1)}

\* HansenUBC(soil_properties, foundation_size, water_level=...,
\* load_angle_incl=...) with local_shear_failure and e left at their defaults
ConstructHansenUBC ==
    /\ ubc_call = NONE
    /\ \E sp \in HansenSoilProperties, f \in HansenFoundations,
          wl \in HansenWaterLevels, la \in HansenLoadAngles :
          LET r == HansenUBC_init(new_instance("HansenUBC", NONE),
                                  sp, f, wl, FALSE, la, Zero)
          IN  /\ ubc_call' = [op |-> "HansenUBC.__init__",
                              soil_properties |-> sp, foundation_size |-> f,
                              water_level |-> wl,
                              local_shear_failure |-> FALSE,
                              load_angle_incl |-> la, e |-> Zero]
              /\ ubc_ret' = r
              /\ ubc' = IF IsOk(r) THEN r.val ELSE NONE
    /\ UNCHANGED <<fs_vars, abc_vars, tbc_vars, hf_vars>>

\* reading one of the twelve factor properties of a HansenUBC
ReadHansenFactor ==
    /\ isinstance(ubc, "HansenUBC")
    /\ \E name \in HansenFactorNames :
          /\ ubc_call' = [op |-> "get", name |-> name]
          /\ ubc_ret' = HansenUBC_factor(ubc, name)
    /\ UNCHANGED <<ubc, fs_vars, abc_vars, tbc_vars, hf_vars>>

\* ubc.bearing_capacity() is called
CallBearingCapacity ==
    /\ ubc # NONE
    /\ ubc_call' = [op |-> "bearing_capacity"]
    /\ ubc_ret' = IF isinstance(ubc, "HansenUBC")
                   THEN HansenUBC_bearing_capacity(ubc)
                   ELSE bearing_capacity(ubc)
    /\ UNCHANGED <<ubc, fs_vars, abc_vars, tbc_vars, hf_vars>>

InitUBC == InitFoundation

NextUBC ==
    \/ ConstructUBC
    \/ ConstructHansenUBC
    \/ ReadHansenFactor
    \/ SetFrictionAngle
    \/ SetCohesion
    \/ SetMoistUnitWgt
    \/ SetLoadAngle
    \/ SetApplyLocalShear
    \/ ReadCohesion
    \/ ReadFrictionAngle
    \/ ReadLoadAngle
    \/ CallBearingCapacity

SpecUBC == InitUBC /\ [][NextUBC]_vars

-----------------------------------------------------------------------------
(* geolysis/core/bearing_capacity/abc_4_soils/abc_4_cohl_soils.py *)

\* obj.name on an instance whose attributes are DOMAIN obj (none of the
\* classes below defines a class attribute besides its methods)
getattr(obj, name) ==
    IF name \in DOMAIN obj THEN Ok(obj[name]) ELSE Raise("AttributeError")

\* _chk_settlement with the comparison >= in place of >
_chk_settlement_ge(tol_settlement, max_tol_settlement) ==
    IF Ge(tol_settlement, max_tol_settlement) THEN Raise("SettlementError")
    ELSE Ok(NONE)

_chk_settlement(tol_settlement, max_tol_settlement) ==
    IF Gt(tol_settlement, max_tol_settlement) THEN Raise("SettlementError")
    ELSE Ok(NONE)

\* #: Maximum tolerable foundation settlement (module level): 25.4
MAX_TOL_SETTLEMENT == R(127, 5)

PadClasses == {"BowlesABC4PadFoundation", "MeyerhofABC4PadFoundation",
               "TerzaghiABC4PadFoundation"}
MatClasses == {"BowlesABC4MatFoundation", "MeyerhofABC4MatFoundation",
               "TerzaghiABC4MatFoundation"}
TerzaghiClasses == {"TerzaghiABC4PadFoundation", "TerzaghiABC4MatFoundation"}
ABCClasses == PadClasses \cup MatClasses

\* __init__ of the Bowles and Meyerhof classes: the attributes are assigned,
\* then the settlement is checked; tol_settlement itself is not stored
ABC_init(cls, corrected_spt_number, tol_settlement, foundation_size) ==
    LET self == [cls |-> cls,
                 corrected_spt_number |-> corrected_spt_number,
                 foundation_size |-> foundation_size]
        chk == _chk_settlement(tol_settlement, MAX_TOL_SETTLEMENT)
    IN  IF IsOk(chk) THEN Ok(self) ELSE chk

\* __init__ of the Terzaghi classes, which also store water_depth
TerzaghiABC_init(cls, corrected_spt_number, tol_settlement, water_depth, foundation_size) ==
    LET self == [cls |-> cls,
                 corrected_spt_number |-> corrected_spt_number,
                 foundation_size |-> foundation_size,
                 water_depth |-> water_depth]
        chk == _chk_settlement(tol_settlement, MAX_TOL_SETTLEMENT)
    IN  IF IsOk(chk) THEN Ok(self) ELSE chk

\* _get_attributes: B, D, SR, N_CORR read off the object in that order
_get_attributes(object) ==
    LET f == getattr(object, "foundation_size")
        tol == getattr(object, "tol_settlement")
        max == getattr(object, "MAX_TOL_SETTLEMENT")
        n == getattr(object, "corrected_spt_number")
    IN  IF ~IsOk(f) THEN f
        ELSE IF ~IsOk(tol) THEN tol
        ELSE IF ~IsOk(max) THEN max
        ELSE IF ~IsOk(n) THEN n
        ELSE Ok([B |-> fs_width(f.val), D |-> f.val.depth,
                 SR |-> Div(tol.val, max.val), N_CORR |-> n.val])

\* ((3.28 * B + 1) / (3.28 * B)) ** 2
width_multiplier(B) ==
    LET w == Div(Add(Mul(R(82, 25), B), One), Mul(R(82, 25), B))
    IN  Mul(w, w)

\* bearing_capacity of the Bowles classes (pad, mat)
Bowles_bearing_capacity(self) ==
    LET a == _get_attributes(self)
        FD == Min(Add(One, Div(Mul(R(33, 100), a.val.D), a.val.B)),
                  R(133, 100))
    IN  IF ~IsOk(a) THEN a
        ELSE IF self.cls \in MatClasses \/ Le(a.val.B, R(6, 5))
        THEN Ok(round_(Mul(Mul(Mul(
                 IF self.cls \in MatClasses THEN R(599, 50) ELSE R(479, 25),
                 a.val.N_CORR), FD), a.val.SR)))
        ELSE Ok(round_(Mul(Mul(Mul(Mul(R(599, 50), a.val.N_CORR),
                 width_multiplier(a.val.B)), FD), a.val.SR)))

\* bearing_capacity of the Meyerhof classes (pad, mat)
Meyerhof_bearing_capacity(self) ==
    LET a == _get_attributes(self)
        FD == Min(Add(One, Div(Mul(R(33, 100), a.val.D), a.val.B)),
                  R(133, 100))
    IN  IF ~IsOk(a) THEN a
        ELSE IF self.cls \in MatClasses \/ Le(a.val.B, R(6, 5))
        THEN Ok(round_(Mul(Mul(Mul(
                 IF self.cls \in MatClasses THEN R(8, 1) ELSE R(12, 1),
                 a.val.N_CORR), FD), a.val.SR)))
        ELSE Ok(round_(Mul(Mul(Mul(Mul(R(8, 1), a.val.N_CORR),
                 width_multiplier(a.val.B)), FD), a.val.SR)))

\* the water correction CW of the Terzaghi classes
CW(water_depth, D, B) ==
    Min(IF Le(water_depth, D)
        THEN Sub(R(2, 1), Div(D, Mul(R(2, 1), B)))
        ELSE Sub(R(2, 1), Div(water_depth, Mul(R(2, 1), B))),
        R(2, 1))

\* bearing_capacity of the Terzaghi classes (pad, mat); CW * FD = 0 makes
\* 1 / (CW * FD) raise
Terzaghi_bearing_capacity(self) ==
    LET a == _get_attributes(self)
        FD == Min(Add(One, Div(Mul(R(1, 4), a.val.D), a.val.B)), R(5, 4))
        cw == CW(self.water_depth, a.val.D, a.val.B)
        inv == Div(One, Mul(cw, FD))
    IN  IF ~IsOk(a) THEN a
        ELSE IF Mul(cw, FD) = Zero THEN Raise("ZeroDivisionError")
        ELSE IF self.cls \in MatClasses \/ Le(a.val.B, R(6, 5))
        THEN Ok(round_(Mul(Mul(Mul(
                 IF self.cls \in MatClasses THEN R(8, 1) ELSE R(12, 1),
                 a.val.N_CORR), inv), a.val.SR)))
        ELSE Ok(round_(Mul(Mul(Mul(Mul(R(8, 1), a.val.N_CORR),
                 width_multiplier(a.val.B)), inv), a.val.SR)))

ABC_bearing_capacity(self) ==
    IF self.cls \in TerzaghiClasses THEN Terzaghi_bearing_capacity(self)
    ELSE IF self.cls \in {"BowlesABC4PadFoundation", "BowlesABC4MatFoundation"}
    THEN Bowles_bearing_capacity(self)
    ELSE Meyerhof_bearing_capacity(self)

\* the arguments the model passes to the six constructors
SptNumbers == {R(17, 1), R(11, 1)}
TolSettlements == {R(20, 1), R(127, 5), R(2541, 100), R(30, 1)}
WaterDepths == {Zero, R(6, 5), R(3, 1), R(4, 1), R(5, 1)}
ABCFoundations ==
    {create_foundation(R(3, 2), R(6, 5), NONE, Zero, Shape_SQUARE).val,
     create_foundation(R(1, 1), R(2, 1), NONE, Zero, Shape_STRIP).val,
     create_foundation(R(3, 2), R(1, 1), R(5, 2), Zero, Shape_RECTANGLE).val}

\* one of the six constructors is called
ConstructABC ==
    /\ abc_call = NONE
    /\ \E c \in ABCClasses, n \in SptNumbers, tol \in TolSettlements,
          f \in ABCFoundations :
        \E wd \in IF c \in TerzaghiClasses THEN WaterDepths ELSE {NONE} :
          LET r == IF c \in TerzaghiClasses
                   THEN TerzaghiABC_init(c, n, tol, wd, f)
                   ELSE ABC_init(c, n, tol, f)
          IN  /\ abc_call' = [op |-> "__init__", cls |-> c,
                              corrected_spt_number |-> n,
                              tol_settlement |-> tol, water_depth |-> wd,
                              foundation_size |-> f]
              /\ abc_ret' = r
              /\ abc' = IF IsOk(r) THEN r.val ELSE NONE
    /\ UNCHANGED <<fs_vars, ubc_vars, tbc_vars, hf_vars>>

\* abc.bearing_capacity() is called; abc_call keeps the constructor's arguments
CallABCBearingCapacity ==
    /\ abc # NONE
    /\ abc_call' = [abc_call EXCEPT !.op = "bearing_capacity"]
    /\ abc_ret' = ABC_bearing_capacity(abc)
    /\ UNCHANGED <<abc, fs_vars, ubc_vars, tbc_vars, hf_vars>>

InitABC == InitFoundation

NextABC == ConstructABC \/ CallABCBearingCapacity

SpecABC == InitABC /\ [][NextABC]_vars

-----------------------------------------------------------------------------
(* geolab/bearing_capacity/terzaghi.py *)

\* geolab.DECIMAL_PLACES
DECIMAL_PLACES == 2

\* an exact comparison in the place of np.isclose
np_isclose_exact(a, b) == a = b

\* np.isclose(a, b) with numpy's defaults: |a - b| <= 1e-8 + 1e-5 * |b|
np_isclose(a, b) ==
    LET diff == Sub(a, b)
        tol == Add(R(1, 100000000),
                   Mul(R(1, 100000), R(Abs(b.n), b.d)))
    IN  Abs(diff.n) <= (diff.d * tol.n) \div tol.d

\* The friction angles of the model in degrees and, to four significant
\* digits, in radians.  The smallest is within np.isclose of 0.
DEG2RAD == { <<R(0, 1), R(0, 1)>>,
             <<R(1, 3490659), R(1, 200000000)>>,
             <<R(20, 1), R(3491, 10000)>>,
             <<R(35, 1), R(6109, 10000)>>,
             <<R(45, 1), R(7854, 10000)>> }

\* the deg2rad decorator (geolab) on the friction_angle argument
deg2rad(friction_angle) ==
    (CHOOSE p \in DEG2RAD : p[1] = friction_angle)[2]

\* geolab.utils.tan (radians), to four significant digits, at phi and at
\* 1.4 * phi
TAN_RAD == { <<R(0, 1), R(0, 1)>>,
             <<R(1, 200000000), R(1, 200000000)>>,
             <<R(7, 1000000000), R(7, 1000000000)>>,
             <<R(3491, 10000), R(3640, 10000)>>,
             <<R(48874, 100000), R(5317, 10000)>>,
             <<R(6109, 10000), R(7002, 10000)>>,
             <<R(85526, 100000), R(1150, 1000)>>,
             <<R(7854, 10000), R(1, 1)>>,
             <<R(109956, 100000), R(1963, 1000)>> }
tan_rad(x) == (CHOOSE p \in TAN_RAD : p[1] = x)[2]

\* exp(((3 * np.pi) / 2 - phi) * tan(phi))
\*     / (2 * (cos(np.deg2rad(45) + (phi / 2)) ** 2))
\* to four significant digits
NQ_EXPR == { <<R(0, 1), R(1, 1)>>,
             <<R(1, 200000000), R(1, 1)>>,
             <<R(3491, 10000), R(7439, 1000)>>,
             <<R(6109, 10000), R(4144, 100)>>,
             <<R(7854, 10000), R(1733, 10)>> }
nq_expr(phi) == (CHOOSE p \in NQ_EXPR : p[1] = phi)[2]

\* A call of a method that may fill the cache of _nq gives what it returned
\* or raised together with the cache it leaves.
Result(ret, cache) == [ret |-> ret, cache |-> cache]

\* __init__ keeping ngamma_type as it was written
TerzaghiBCF_init_exact(ngamma_type, friction_angle) ==
    [phi |-> deg2rad(friction_angle), ngamma_type |-> ngamma_type]

\* TerzaghiBCF.__init__
TerzaghiBCF_init(ngamma_type, friction_angle) ==
    [phi |-> deg2rad(friction_angle), ngamma_type |-> casefold(ngamma_type)]

\* a cache that answers with any value it holds, whatever the argument
_nq_any_hit(phi, cache) ==
    IF cache # {}
    THEN Result((CHOOSE p \in cache : TRUE)[2], cache)
    ELSE Result(nq_expr(phi), cache \cup {<<phi, nq_expr(phi)>>})

\* TerzaghiBCF._nq under functools.cache: a cached phi is answered from the
\* cache, any other is computed and stored
_nq(phi, cache) ==
    IF \E p \in cache : p[1] = phi
    THEN Result((CHOOSE p \in cache : p[1] = phi)[2], cache)
    ELSE Result(nq_expr(phi), cache \cup {<<phi, nq_expr(phi)>>})

TerzaghiBCF_nq(self, cache) ==
    LET r == _nq(self.phi, cache)
    IN  Result(Ok(round(r.ret, DECIMAL_PLACES)), r.cache)

TerzaghiBCF_nc(self, cache) ==
    IF np_isclose(self.phi, Zero) THEN Result(Ok(R(570, 100)), cache)
    ELSE LET r == _nq(self.phi, cache)
             _nc == Mul(Div(One, tan_rad(self.phi)), Sub(r.ret, One))
         IN  Result(Ok(round(_nc, DECIMAL_PLACES)), r.cache)

meyerhof == <<"m", "e", "y", "e", "r", "h", "o", "f">>
hansen == <<"h", "a", "n", "s", "e", "n">>

TerzaghiBCF_ngamma(self, cache) ==
    IF self.ngamma_type = meyerhof
    THEN LET r == _nq(self.phi, cache)
             _ngamma == Mul(Sub(r.ret, One),
                            tan_rad(Mul(R(14, 10), self.phi)))
         IN  Result(Ok(round(_ngamma, DECIMAL_PLACES)), r.cache)
    ELSE IF self.ngamma_type = hansen
    THEN LET r == _nq(self.phi, cache)
             _ngamma == Mul(Mul(R(18, 10), Sub(r.ret, One)),
                            tan_rad(self.phi))
         IN  Result(Ok(round(_ngamma, DECIMAL_PLACES)), r.cache)
    ELSE Result(RaiseMsg("TypeError",
                         "Available types are Meyerhof or Hansen"), cache)

\* TBC.__init__
TBC_init(cohesion, friction_angle, unit_weight_of_soil, foundation_depth, foundation_width, ngamma_type) ==
    [cohesion |-> cohesion, gamma |-> unit_weight_of_soil,
     fd |-> foundation_depth, fw |-> foundation_width,
     _bearing_cap_factors |-> TerzaghiBCF_init(ngamma_type, friction_angle)]

\* the properties TBC.nq, TBC.nc and TBC.ngamma
TBC_nq(self, cache) == TerzaghiBCF_nq(self._bearing_cap_factors, cache)
TBC_nc(self, cache) == TerzaghiBCF_nc(self._bearing_cap_factors, cache)
TBC_ngamma(self, cache) ==
    TerzaghiBCF_ngamma(self._bearing_cap_factors, cache)

\* coef_c * c * nc + gamma * fd * nq + coef_gamma * gamma * fw * ngamma,
\* rounded: nc, nq and ngamma are read in that order
qult(self, cache, coef_c, coef_gamma) ==
    LET c == TBC_nc(self, cache)
        q == TBC_nq(self, c.cache)
        g == TBC_ngamma(self, q.cache)
        s == sum(<<product(<<Ok(coef_c), Ok(self.cohesion), c.ret>>),
                   product(<<Ok(self.gamma), Ok(self.fd), q.ret>>),
                   product(<<Ok(coef_gamma), Ok(self.gamma), Ok(self.fw),
                             g.ret>>)>>)
    IN  Result(IF IsOk(s) THEN Ok(round(s.val, DECIMAL_PLACES)) ELSE s,
               g.cache)

qult_4_strip_footing(self, cache) == qult(self, cache, One, R(5, 10))
\* the square footing computed with the constants of the strip footing
qult_4_square_footing_as_strip(self, cache) == qult(self, cache, One, R(5, 10))

qult_4_square_footing(self, cache) == qult(self, cache, R(12, 10), R(4, 10))
qult_4_circular_footing(self, cache) ==
    qult(self, cache, R(12, 10), R(3, 10))

\* the arguments the model passes to TBC
TerzaghiAngles == {p[1] : p \in DEG2RAD}
NgammaTypes ==
    {<<"M", "e", "y", "e", "r", "h", "o", "f">>,
     <<"H", "A", "N", "S", "E", "N">>,
     <<"h", "a", "n", "s", "e", "n">>,
     <<"V", "e", "s", "i", "c">>,
     <<>>}
TBCWidths == {R(6, 5), R(2, 1)}

\* TBC(cohesion, friction_angle, unit_weight_of_soil, foundation_depth,
\* foundation_width, ngamma_type): any number of objects may be built, one
\* after the other, in a process whose _nq cache lives on
ConstructTBC ==
    /\ \E phi \in TerzaghiAngles, fw \in TBCWidths, t \in NgammaTypes :
          /\ tbc' = TBC_init(R(15, 1), phi, R(18, 1), One, fw, t)
          /\ tbc_call' = [op |-> "__init__", friction_angle |-> phi,
                          foundation_width |-> fw, ngamma_type |-> t]
          /\ tbc_ret' = Ok(NONE)
    /\ UNCHANGED <<nq_cache, fs_vars, ubc_vars, abc_vars, hf_vars>>

\* a call tbc.<name> or tbc.<name>() that gave r
TBCCall(name, r) ==
    /\ tbc_call' = [op |-> name]
    /\ tbc_ret' = r.ret
    /\ nq_cache' = r.cache
    /\ UNCHANGED <<tbc, fs_vars, ubc_vars, abc_vars, hf_vars>>

ReadNq == tbc # NONE /\ TBCCall("nq", TBC_nq(tbc, nq_cache))
ReadNc == tbc # NONE /\ TBCCall("nc", TBC_nc(tbc, nq_cache))
ReadNgamma == tbc # NONE /\ TBCCall("ngamma", TBC_ngamma(tbc, nq_cache))
CallQultStrip ==
    /\ tbc # NONE
    /\ TBCCall("qult_4_strip_footing", qult_4_strip_footing(tbc, nq_cache))
CallQultSquare ==
    /\ tbc # NONE
    /\ TBCCall("qult_4_square_footing", qult_4_square_footing(tbc, nq_cache))
CallQultCircular ==
    /\ tbc # NONE
    /\ TBCCall("qult_4_circular_footing",
               qult_4_circular_footing(tbc, nq_cache))

InitTerzaghi == InitFoundation

NextTerzaghi ==
    \/ ConstructTBC
    \/ ReadNq
    \/ ReadNc
    \/ ReadNgamma
    \/ CallQultStrip
    \/ CallQultSquare
    \/ CallQultCircular

SpecTerzaghi == InitTerzaghi /\ [][NextTerzaghi]_vars

-----------------------------------------------------------------------------
(* The Hansen factor classes called directly, as the tests call them *)

HFAngles == {p[1] : p \in TAN2_EXP}
\* the angles the depth factors are called at
HFDepthAngles == {a \in HFAngles : a.d <= 2}
HFWidths == {Zero, R(2, 1)}
HFShapeWidths == {R(1, 1), R(2, 1)}
HFLengths == {R(2, 1), R(4, 1)}
HFDepths == {R(3, 2), R(2, 1), R(5, 2), R(3, 1)}
HFCohesions == {Zero, R(20, 1)}
HFLoadAngles == {p[1] : p \in COS}
\* a footing_type that is no member of Shape
HFUnknownShapes == {<<"o", "v", "a", "l">>, <<>>}
HFShapes == Shape \cup HFUnknownShapes

HFCall(cls, name, args, r) ==
    /\ hf_call' = [cls |-> cls, op |-> name, args |-> args]
    /\ hf_ret' = r
    /\ UNCHANGED <<fs_vars, ubc_vars, abc_vars, tbc_vars>>

CallHansenBearingCapacityFactor ==
    \E angle \in HFAngles :
        \/ HFCall("HansenBearingCapacityFactor", "n_c", <<angle>>,
                  HansenBearingCapacityFactor_n_c(<<angle>>))
        \/ HFCall("HansenBearingCapacityFactor", "n_q", <<angle>>,
                  HansenBearingCapacityFactor_n_q(<<angle>>))
        \/ HFCall("HansenBearingCapacityFactor", "n_gamma", <<angle>>,
                  HansenBearingCapacityFactor_n_gamma(<<angle>>))

CallHansenShapeFactor ==
    \E f_w \in HFShapeWidths, f_l \in HFLengths, footing_type \in HFShapes :
        LET args == <<f_w, f_l, footing_type>>
        IN  \/ HFCall("HansenShapeFactor", "s_c", args,
                      HansenShapeFactor_s_c(args))
            \/ HFCall("HansenShapeFactor", "s_q", args,
                      HansenShapeFactor_s_q(args))
            \/ HFCall("HansenShapeFactor", "s_gamma", args,
                      HansenShapeFactor_s_gamma(args))

CallHansenDepthFactor ==
    \/ \E f_d \in HFDepths, f_w \in HFWidths :
           HFCall("HansenDepthFactor", "d_c", <<f_d, f_w>>,
                  HansenDepthFactor_d_c(<<f_d, f_w>>))
    \/ \E angle \in HFDepthAngles, f_d \in HFDepths, f_w \in HFWidths :
           HFCall("HansenDepthFactor", "d_q", <<angle, f_d, f_w>>,
                  HansenDepthFactor_d_q(<<angle, f_d, f_w>>))
    \/ HFCall("HansenDepthFactor", "d_gamma", <<>>,
              HansenDepthFactor_d_gamma(<<>>))

CallHansenInclinationFactor ==
    \E load_angle \in HFLoadAngles :
        \/ \E cohesion \in HFCohesions, f_w \in HFWidths, f_l \in HFLengths :
               LET args == <<cohesion, load_angle, f_w, f_l>>
               IN  HFCall("HansenInclinationFactor", "i_c", args,
                          HansenInclinationFactor_i_c(args))
        \/ HFCall("HansenInclinationFactor", "i_q", <<load_angle>>,
                  HansenInclinationFactor_i_q(<<load_angle>>))
        \/ HFCall("HansenInclinationFactor", "i_gamma", <<load_angle>>,
                  HansenInclinationFactor_i_gamma(<<load_angle>>))

InitHansenFactors == InitFoundation

NextHansenFactors ==
    \/ CallHansenBearingCapacityFactor
    \/ CallHansenShapeFactor
    \/ CallHansenDepthFactor
    \/ CallHansenInclinationFactor

SpecHansenFactors == InitHansenFactors /\ [][NextHansenFactors]_vars

-----------------------------------------------------------------------------
(* Claims about UltimateBearingCapacity *)

Two == R(2, 1)

\* the objects C1 speaks of: constructed, with depth > 0, effective width > 0
\* and water level >= 0
C1_Valid(self) ==
    /\ Gt(self.foundation_size.depth, Zero)
    /\ Gt(effective_width(self.foundation_size), Zero)
    /\ Ge(self.ground_water_level, Zero)

\* cohesion_term + surcharge_term + embedment_term of an
\* UltimateBearingCapacity whose shape, depth and inclination factors are
\* 1.0, with the coefficients 1.0 and 0.5
C1_Sum(self) ==
    LET depth == self.foundation_size.depth
        width == effective_width(self.foundation_size)
        wl == self.ground_water_level
        cohesion_term == Mul(get_cohesion(self), self.bcf.n_c)
        surcharge_term ==
            Mul(Mul(Mul(self.moist_unit_wgt, depth), self.bcf.n_q),
                surcharge_water_corr(depth, wl).val)
        embedment_term ==
            Mul(Mul(Mul(Mul(R(1, 2), self.moist_unit_wgt), width),
                    self.bcf.n_gamma),
                embedment_water_corr(depth, width, wl).val)
    IN  Add(Add(cohesion_term, surcharge_term), embedment_term)

\* the HansenUBC of TestHansenUBC.test_bearing_capacity: square footing,
\* depth 1.5, width 2.0, friction angle 20, cohesion 20, unit weight 18, no
\* water, the default load angle
C1_HansenTestCase(self) ==
    /\ isinstance(self, "HansenUBC")
    /\ self.foundation_size
         = create_foundation(R(3, 2), R(2, 1), NONE, Zero, Shape_SQUARE).val
    /\ self._friction_angle = R(20, 1)
    /\ self._cohesion = R(20, 1)
    /\ self.moist_unit_wgt = R(18, 1)
    /\ self.ground_water_level = INF
    /\ self._load_angle = R(90, 1)
    /\ ~self.apply_local_shear

\* C1: bearing_capacity() of a validly constructed object returns the number
\* cohesion_term + surcharge_term + embedment_term: for an
\* UltimateBearingCapacity exactly that sum, for the HansenUBC of the test
\* 809.36 within the test's relative tolerance of 0.01.
C1_BearingCapacityIsSum ==
    (/\ ubc_call # NONE
     /\ ubc_call.op = "bearing_capacity"
     /\ C1_Valid(ubc)
     /\ isinstance(ubc, "UltimateBearingCapacity") \/ C1_HansenTestCase(ubc))
    =>
        /\ IsOk(ubc_ret)
        /\ isinstance(ubc, "UltimateBearingCapacity") =>
              ubc_ret.val = C1_Sum(ubc)
        /\ C1_HansenTestCase(ubc) =>
              /\ Le(R(80127, 100), ubc_ret.val)
              /\ Le(ubc_ret.val, R(81745, 100))

\* bearing_capacity() of an UltimateBearingCapacity with depth > 0, effective
\* width > 0 and water level >= 0 returns exactly the sum of the three terms
C1_BaseClassIsSum ==
    (isinstance(ubc, "UltimateBearingCapacity")
        /\ ubc_call.op = "bearing_capacity" /\ C1_Valid(ubc)) =>
        /\ IsOk(ubc_ret)
        /\ ubc_ret.val = C1_Sum(ubc)

\* C2: for depth > 0, effective width > 0 and water level >= 0 the surcharge
\* water correction is min(1 - 0.5*a/depth, 1) with a = max(depth - wl, 0),
\* that is 1 when wl >= depth and (depth + wl)/(2*depth) otherwise; the
\* embedment water correction is min(0.5 + 0.5*b/width, 1) with
\* b = max(wl - depth, 0), that is 1/2 when wl <= depth, 1 when
\* wl - depth >= width and (width + wl - depth)/(2*width) otherwise; both are
\* exactly 1 without a water level (inf) and neither exceeds 1.
C2_WaterCorrections ==
    ubc # NONE =>
        LET depth == ubc.foundation_size.depth
            width == effective_width(ubc.foundation_size)
            wl == ubc.ground_water_level
            sc == surcharge_water_corr(depth, wl)
            ec == embedment_water_corr(depth, width, wl)
        IN  (Gt(depth, Zero) /\ Gt(width, Zero) /\ Ge(wl, Zero)) =>
              /\ IsOk(sc) /\ IsOk(ec)
              /\ Le(sc.val, One) /\ Le(ec.val, One)
              /\ wl = INF => (sc.val = One /\ ec.val = One)
              /\ (wl # INF /\ Ge(wl, depth)) => sc.val = One
              /\ (wl # INF /\ Lt(wl, depth)) =>
                    Mul(sc.val, Mul(Two, depth)) = Add(depth, wl)
              /\ (wl # INF /\ Le(wl, depth)) => ec.val = R(1, 2)
              /\ (wl # INF /\ Gt(wl, depth) /\ Ge(Sub(wl, depth), width)) =>
                    ec.val = One
              /\ (wl # INF /\ Gt(wl, depth) /\ Lt(Sub(wl, depth), width)) =>
                    Mul(ec.val, Mul(Two, width))
                        = Add(width, Sub(wl, depth))

\* bearing_capacity() returned for a water level inside the embedment depth,
\* where the surcharge correction is below 1
C2_Witness ==
    /\ ubc # NONE
    /\ ubc_call.op = "bearing_capacity"
    /\ IsOk(ubc_ret)
    /\ ubc.ground_water_level = R(2, 5)
    /\ ubc.foundation_size.depth = R(3, 2)
    /\ Gt(effective_width(ubc.foundation_size), Zero)
    /\ surcharge_water_corr(R(3, 2), R(2, 5)).val = R(19, 30)

\* C7: constructing the object from a mapping that lacks friction_angle,
\* cohesion or moist_unit_wgt raises the missing-property error (ValueError
\* "<key> is required.") and leaves no object.
C7_MissingPropertyRejected ==
    (ubc_call # NONE /\ ubc_call.op = "__init__"
        /\ ~(RequiredKeys \subseteq DOMAIN ubc_call.soil_properties)) =>
        /\ Raises(ubc_ret, "ValueError")
        /\ ubc_ret.msg \in {"friction_angle is required.",
                            "cohesion is required.",
                            "moist_unit_wgt is required."}
        /\ ubc = NONE

\* a mapping lacking only moist_unit_wgt was rejected
C7_Witness ==
    /\ ubc_call # NONE
    /\ ubc_call.op = "__init__"
    /\ DOMAIN ubc_call.soil_properties = {"friction_angle", "cohesion"}
    /\ Raises(ubc_ret, "ValueError")
    /\ ubc_ret.msg = "moist_unit_wgt is required."

\* C8: every constructed object holds friction_angle >= 0, cohesion >= 0 and
\* moist unit weight > 0, at construction and after any assignment.
C8_SoilPropertiesValid ==
    ubc # NONE =>
        /\ Ge(ubc._friction_angle, Zero)
        /\ Ge(ubc._cohesion, Zero)
        /\ Gt(ubc.moist_unit_wgt, Zero)

\* arctan(2/3 * tan(phi)) in degrees, to four decimals
C9_ReducedAngle(phi) ==
    IF phi = Zero THEN Zero
    ELSE IF phi = R(25, 1) THEN R(172687, 10000)
    ELSE NONE

C9_ReadsAreViews ==
    (ubc_call # NONE /\ ubc_call.op = "get") =>
        /\ ubc_call.name = "cohesion" =>
              ubc_ret.val = IF ubc.apply_local_shear
                            THEN R(2 * ubc._cohesion.n, 3 * ubc._cohesion.d)
                            ELSE ubc._cohesion
        /\ ubc_call.name = "friction_angle" =>
              ubc_ret.val = IF ubc.apply_local_shear
                            THEN C9_ReducedAngle(ubc._friction_angle)
                            ELSE ubc._friction_angle

C9_ReadsAndTogglesKeepStored ==
    (/\ ubc # NONE
     /\ \/ ubc_call'.op = "get"
        \/ (ubc_call'.op = "set" /\ ubc_call'.name = "apply_local_shear")) =>
        /\ ubc'._friction_angle = ubc._friction_angle
        /\ ubc'._cohesion = ubc._cohesion

\* C9: with apply_local_shear set, reading cohesion returns 2/3 of the stored
\* cohesion and reading friction_angle returns arctan(2/3*tan(stored angle));
\* with it unset both return the stored values; and no read, and no
\* assignment to the flag, changes the stored friction angle or cohesion.
C9_LocalShearView ==
    /\ []C9_ReadsAreViews
    /\ [][C9_ReadsAndTogglesKeepStored]_vars

\* cohesion was read as 10 with the flag set while 15 is stored
C9_Witness ==
    /\ ubc # NONE
    /\ ubc_call.op = "get"
    /\ ubc_call.name = "cohesion"
    /\ ubc.apply_local_shear
    /\ ubc._cohesion = R(15, 1)
    /\ ubc_ret = Ok(R(10, 1))

C10_InRange(alpha) == Le(Zero, alpha) /\ Le(alpha, R(90, 1))

C10_IsLoadAngleError(r) ==
    /\ Raises(r, "ValueError")
    /\ r.msg = "Load angle must be between 0 and 90 degrees."

\* C10: a load angle is accepted exactly when 0 <= alpha <= 90: assigning an
\* angle in the range stores it, assigning any other raises the load-angle
\* error and stores nothing; the constructor raises for a load angle out of
\* the range and raises the load-angle error only for one; and the object
\* never holds a load angle outside [0, 90].
C10_LoadAngleValidated ==
    /\ ubc # NONE => C10_InRange(ubc._load_angle)
    /\ (ubc_call # NONE /\ ubc_call.op = "set"
            /\ ubc_call.name = "load_angle") =>
          IF C10_InRange(ubc_call.val)
          THEN IsOk(ubc_ret) /\ ubc._load_angle = ubc_call.val
          ELSE C10_IsLoadAngleError(ubc_ret)
    /\ (ubc_call # NONE /\ ubc_call.op = "__init__") =>
          /\ ~C10_InRange(ubc_call.load_angle) =>
                (Raises(ubc_ret, "ValueError") /\ ubc = NONE)
          /\ C10_IsLoadAngleError(ubc_ret) => ~C10_InRange(ubc_call.load_angle)
          /\ IsOk(ubc_ret) => ubc._load_angle = ubc_call.load_angle

\* 90 was assigned and is held
C10_Witness ==
    /\ ubc # NONE
    /\ ubc_call.op = "set"
    /\ ubc_call.name = "load_angle"
    /\ ubc_call.val = R(90, 1)
    /\ IsOk(ubc_ret)
    /\ ubc._load_angle = R(90, 1)

-----------------------------------------------------------------------------
(* Claims about the allowable-bearing-capacity classes *)

\* C3: each of the six constructors succeeds when tol_settlement is 25.4 or
\* less and raises the settlement error, leaving no object, when
\* tol_settlement is greater than 25.4.
C3_SettlementCeiling ==
    (abc_call # NONE /\ abc_call.op = "__init__") =>
        /\ Le(abc_call.tol_settlement, R(254, 10)) =>
              /\ IsOk(abc_ret)
              /\ abc = abc_ret.val
              /\ abc.cls = abc_call.cls
        /\ Gt(abc_call.tol_settlement, R(254, 10)) =>
              /\ Raises(abc_ret, "SettlementError")
              /\ abc = NONE

\* a constructor was called with 25.41 and raised
C3_Witness ==
    /\ abc_call # NONE
    /\ abc_call.op = "__init__"
    /\ abc_call.tol_settlement = R(2541, 100)
    /\ Raises(abc_ret, "SettlementError")

\* what bearing_capacity() computes for an object that also holds the
\* constructor's tol_settlement and the 25.4 ceiling
C4_Scaled ==
    ABC_bearing_capacity(
        [a \in DOMAIN abc \cup {"tol_settlement", "MAX_TOL_SETTLEMENT"} |->
            IF a = "tol_settlement" THEN abc_call.tol_settlement
            ELSE IF a = "MAX_TOL_SETTLEMENT" THEN R(254, 10)
            ELSE abc[a]])

\* C4: bearing_capacity() of a constructed allowable-bearing-capacity object
\* returns a pressure scaled by the settlement ratio tol_settlement / 25.4 of
\* the tol_settlement its constructor was given.
C4_ScaledBySettlementRatio ==
    (abc_call # NONE /\ abc_call.op = "bearing_capacity") =>
        /\ IsOk(abc_ret)
        /\ abc_ret = C4_Scaled

-----------------------------------------------------------------------------
(* Claims about create_foundation *)

RecognisedTags == StripTags \cup SquareTags \cup CircleTags \cup RectangleTags

\* the inputs C5 says create_foundation rejects
C5_Rejected(c) ==
    \/ Le(c.width, Zero)
    \/ Le(c.depth, Zero)
    \/ Lt(c.eccentricity, Zero)
    \/ /\ c.footing_shape \in RectangleTags
       /\ (c.length = NONE \/ Le(c.length, Zero))

\* C5: create_foundation fails, constructing nothing, whenever width <= 0,
\* depth <= 0, eccentricity < 0, or the shape is rectangle and no length (or a
\* length <= 0) is supplied; every other call with a recognised shape returns
\* a FoundationSize holding the depth, eccentricity and width it was given.
C5_CreateFoundationValidates ==
    fs_call # NONE =>
        /\ C5_Rejected(fs_call) => fs_ret.tag = "raise"
        /\ (~C5_Rejected(fs_call) /\ fs_call.footing_shape \in RecognisedTags)
              => /\ IsOk(fs_ret)
                 /\ fs_ret.val.depth = fs_call.depth
                 /\ fs_ret.val.eccentricity = fs_call.eccentricity
                 /\ fs_width(fs_ret.val) = fs_call.width

\* a rectangle without a length, everything else valid, was rejected
C5_Witness ==
    /\ fs_call # NONE
    /\ fs_call.footing_shape \in RectangleTags
    /\ fs_call.length = NONE
    /\ Gt(fs_call.width, Zero) /\ Gt(fs_call.depth, Zero)
    /\ Ge(fs_call.eccentricity, Zero)
    /\ Raises(fs_ret, "ValueError")

\* the footing class each recognised tag stands for
C6_ClassOf(tag) ==
    IF tag \in StripTags THEN "StripFooting"
    ELSE IF tag \in SquareTags THEN "SquareFooting"
    ELSE IF tag \in CircleTags THEN "CircularFooting"
    ELSE "RectangularFooting"

C6_ShapeOf(tag) ==
    IF tag \in StripTags THEN Shape_STRIP
    ELSE IF tag \in SquareTags THEN Shape_SQUARE
    ELSE IF tag \in CircleTags THEN Shape_CIRCLE
    ELSE Shape_RECTANGLE

\* C6: create_foundation matches the shape tag case-insensitively (any casing
\* of strip, square, circle, rectangle is never an unknown shape and builds
\* the footing class of that Shape member) and raises the unknown-shape error
\* (TypeError) for every other tag.
C6_ShapeTagCaseInsensitive ==
    fs_call # NONE =>
        /\ fs_call.footing_shape \in UnknownTags => Raises(fs_ret, "TypeError")
        /\ fs_call.footing_shape \in RecognisedTags =>
             /\ ~Raises(fs_ret, "TypeError")
             /\ IsOk(fs_ret) =>
                  /\ fs_ret.val.footing_size.cls
                        = C6_ClassOf(fs_call.footing_shape)
                  /\ fs_footing_shape(fs_ret.val)
                        = C6_ShapeOf(fs_call.footing_shape)

\* an upper-case tag built the footing of its Shape member
C6_Witness ==
    /\ fs_call # NONE
    /\ fs_call.footing_shape = <<"C", "I", "R", "C", "L", "E">>
    /\ IsOk(fs_ret)
    /\ fs_ret.val.footing_size.cls = "CircularFooting"

-----------------------------------------------------------------------------
(* Claims about the bearing capacity factors *)

\* the friction angle (radians) of the object under test
C11_Phi == tbc._bearing_cap_factors.phi

\* |x| <= 1e-8: x is 0 within the floating-point tolerance
C11_NearZero(x) == Abs(x.n) <= x.d \div 100000000

\* C11: at a friction angle of 0, or within the floating-point tolerance of
\* 0, Nc is the constant of the method (5.70 for Terzaghi, 5.14 for Hansen)
\* and not the value of the cotangent formula, Nq is 1.0 and N-gamma is 0
\* (for either Terzaghi variant).
C11_ZeroAngleFactors ==
    /\ (tbc # NONE /\ C11_NearZero(C11_Phi)) =>
          /\ tbc_call.op = "nc" => tbc_ret = Ok(R(570, 100))
          /\ tbc_call.op = "nq" => tbc_ret = Ok(One)
          /\ (tbc_call.op = "ngamma" /\ IsOk(tbc_ret)) => tbc_ret = Ok(Zero)
    /\ \A a \in HFAngles : C11_NearZero(a) =>
          /\ HansenBearingCapacityFactor_n_c(<<a>>) = Ok(R(514, 100))
          /\ HansenBearingCapacityFactor_n_q(<<a>>) = Ok(One)
          /\ HansenBearingCapacityFactor_n_gamma(<<a>>) = Ok(Zero)

\* Nc has been read at an angle that is close to 0 without being 0
C11_Witness ==
    /\ tbc # NONE
    /\ C11_Phi # Zero
    /\ C11_NearZero(C11_Phi)
    /\ tbc_call.op = "nc"
    /\ tbc_ret = Ok(R(570, 100))
    /\ \E a \in HFAngles : a # Zero /\ C11_NearZero(a)

\* the spellings of the two variants among the inputs
C12_MeyerhofTags == {<<"M", "e", "y", "e", "r", "h", "o", "f">>}
C12_HansenTags == {<<"H", "A", "N", "S", "E", "N">>,
                   <<"h", "a", "n", "s", "e", "n">>}

\* (Nq - 1) tan(1.4 phi) and 1.8 (Nq - 1) tan(phi), to two decimals
C12_Meyerhof(phi) ==
    round(Mul(Sub(nq_expr(phi), One), tan_rad(Mul(R(14, 10), phi))), 2)
C12_Hansen(phi) ==
    round(Mul(Mul(R(18, 10), Sub(nq_expr(phi), One)), tan_rad(phi)), 2)

C12_IsQult(op) ==
    op \in {"qult_4_strip_footing", "qult_4_square_footing",
            "qult_4_circular_footing"}

\* C12: the N-gamma variant of a Terzaghi object is Meyerhof or Hansen in
\* any letter case: Meyerhof gives (Nq - 1) tan(1.4 phi), Hansen gives
\* 1.8 (Nq - 1) tan(phi); with any other variant the object is still built,
\* and N-gamma and every capacity that uses it fail with the
\* invalid-variant TypeError.
C12_NgammaVariant ==
    /\ (tbc # NONE /\ tbc_call.op = "__init__") =>
          LET t == tbc_call.ngamma_type
              phi == deg2rad(tbc_call.friction_angle)
              r == TBC_ngamma(tbc, nq_cache).ret
          IN  /\ tbc_ret = Ok(NONE)
              /\ t \in C12_MeyerhofTags => r = Ok(C12_Meyerhof(phi))
              /\ t \in C12_HansenTags => r = Ok(C12_Hansen(phi))
              /\ t \notin C12_MeyerhofTags \cup C12_HansenTags =>
                    Raises(r, "TypeError")
    /\ (tbc # NONE /\ tbc_call.op = "ngamma") =>
          LET t == tbc._bearing_cap_factors.ngamma_type
              phi == tbc._bearing_cap_factors.phi
          IN  /\ t = meyerhof => tbc_ret = Ok(C12_Meyerhof(phi))
              /\ t = hansen => tbc_ret = Ok(C12_Hansen(phi))
              /\ t \notin {meyerhof, hansen} =>
                    tbc_ret = RaiseMsg("TypeError",
                                  "Available types are Meyerhof or Hansen")
    /\ (tbc # NONE /\ C12_IsQult(tbc_call.op)) =>
          (Raises(tbc_ret, "TypeError")
              <=> tbc._bearing_cap_factors.ngamma_type
                      \notin {meyerhof, hansen})
    /\ (tbc # NONE /\ tbc_call.op \in {"nq", "nc"}) => IsOk(tbc_ret)

\* N-gamma has been read from an object built with the variant written
\* "HANSEN" or "hansen", at 20 degrees, and is 4.22
C12_Witness ==
    /\ tbc # NONE
    /\ tbc_call.op = "ngamma"
    /\ tbc._bearing_cap_factors.ngamma_type = hansen
    /\ tbc._bearing_cap_factors.phi = R(3491, 10000)
    /\ tbc_ret = Ok(R(422, 100))

\* what the call named op returns on a process that has never called _nq
C13_Fresh(op) ==
    CASE op = "nq" -> TBC_nq(tbc, {}).ret
      [] op = "nc" -> TBC_nc(tbc, {}).ret
      [] op = "ngamma" -> TBC_ngamma(tbc, {}).ret
      [] op = "qult_4_strip_footing" -> qult_4_strip_footing(tbc, {}).ret
      [] op = "qult_4_square_footing" -> qult_4_square_footing(tbc, {}).ret
      [] op = "qult_4_circular_footing" ->
             qult_4_circular_footing(tbc, {}).ret

\* C13: every factor and capacity read from a Terzaghi object is what a
\* fresh computation on the same inputs gives, whatever was called before
\* and on whichever objects, and every memoized Nq is the computed Nq of
\* its angle.
C13_HistoryIndependent ==
    /\ \A p \in nq_cache : p[2] = nq_expr(p[1])
    /\ (tbc # NONE /\ tbc_call.op # "__init__") =>
          tbc_ret = C13_Fresh(tbc_call.op)

\* Nq has been read at 20 degrees in a process whose cache holds the Nq of
\* at least two other angles
C13_Witness ==
    /\ tbc # NONE
    /\ tbc_call.op = "nq"
    /\ tbc._bearing_cap_factors.phi = R(3491, 10000)
    /\ tbc_ret = Ok(R(744, 100))
    /\ Cardinality(nq_cache) >= 3

-----------------------------------------------------------------------------
(* Claims about HansenUBC and the Hansen factor classes *)

\* C14: on every HansenUBC that was constructed, each of the twelve factor
\* properties returns a number and bearing_capacity() returns a number.
C14_AccessorsReturn ==
    (isinstance(ubc, "HansenUBC")
        /\ ubc_call.op \in {"get", "bearing_capacity"}) =>
       (IsOk(ubc_ret) /\ IsNum(ubc_ret.val))

\* x has at most two decimals
C15_Rounded(x) == round(x, 2) = x

\* C15: every value a Hansen factor class method returns (bearing capacity,
\* shape, depth and inclination factors) has been rounded to the fixed two
\* decimals.
C15_FactorsRounded ==
    (hf_call # NONE /\ IsOk(hf_ret)) => C15_Rounded(hf_ret.val)

-----------------------------------------------------------------------------
(* Claims about FoundationSize after construction *)

\* C16: once a FoundationSize has been constructed no operation changes it
\* or its footing: an assignment to depth, eccentricity, width, length or
\* footing_shape, through the object or its reference fields, leaves every
\* value as it was.
C16_ReadOnly == [][fs # NONE => fs' = fs]_vars

\* width - 2 * eccentricity of the arguments of a create_foundation call
C17_WidthLessTwiceEcc(c) == Sub(c.width, Mul(R(2, 1), c.eccentricity))

\* C17: effective_width is width - 2 * eccentricity, and a call whose
\* arguments are valid one by one is not rejected when that difference is 0
\* or negative: the FoundationSize is built, reports that effective width,
\* and is accepted by the constructor of the bearing capacity object.
C17_EffectiveWidthUnchecked ==
    (/\ fs_call # NONE
     /\ fs_call.footing_shape \in RecognisedTags
     /\ ~C5_Rejected(fs_call)) =>
        /\ IsOk(fs_ret)
        /\ effective_width(fs_ret.val) = C17_WidthLessTwiceEcc(fs_call)
        /\ \A bcf \in BearingCapacityFactors :
              IsOk(UltimateBearingCapacity_init(
                       new_instance("UltimateBearingCapacity", bcf),
                       [friction_angle |-> R(20, 1), cohesion |-> R(20, 1),
                        moist_unit_wgt |-> R(18, 1)],
                       fs_ret.val, Zero, INF, FALSE))

\* a FoundationSize of width 1.2 and eccentricity 1 has been built: its
\* effective width is -0.8
C17_Witness ==
    /\ fs # NONE
    /\ fs_call.width = R(6, 5)
    /\ fs_call.eccentricity = One
    /\ IsOk(fs_ret)
    /\ effective_width(fs) = R(-4, 5)

\* the Hansen bearing capacity factor named op at friction angle a
C18_Factor(op, a) ==
    CASE op = "n_c" -> HansenBearingCapacityFactor_n_c(<<a>>).val
      [] op = "n_q" -> HansenBearingCapacityFactor_n_q(<<a>>).val
      [] op = "n_gamma" -> HansenBearingCapacityFactor_n_gamma(<<a>>).val

\* the friction angles of the model in (0, 45] degrees, from 0.5 up
C18_Angles == {a \in HFDepthAngles : Gt(a, Zero) /\ Le(a, R(45, 1))}

\* C18: Nc, Nq and N-gamma as the method returns them are strictly
\* increasing in the friction angle over (0, 45] degrees: a factor returned
\* at an angle is larger than the same factor at every smaller angle.
C18_StrictlyIncreasing ==
    (/\ hf_call # NONE
     /\ hf_call.cls = "HansenBearingCapacityFactor"
     /\ hf_call.args[1] \in C18_Angles) =>
        \A b \in C18_Angles :
            Lt(b, hf_call.args[1]) => Lt(C18_Factor(hf_call.op, b), hf_ret.val)

\* k of C19: the ratio depth / width up to and including 1, its arctan
\* (radians) above 1
C19_K(f_d, f_w) ==
    LET ratio == Div(f_d, f_w)
    IN  IF Le(ratio, One) THEN ratio
        ELSE (CHOOSE p \in ARCTAN_RAD : p[1] = ratio)[2]

C19_Dc(f_d, f_w) == round(Add(One, Mul(R(4, 10), C19_K(f_d, f_w))), 2)

\* C19: the Hansen depth factors are Dc = 1 + 0.4 k, Dq = Dc when the
\* friction angle exceeds 25 degrees and 1 + 2 tan(phi) (1 - sin(phi))^2 k
\* up to and including 25 degrees, and D-gamma = 1.0, where k is
\* depth / width up to and including 1 and arctan(depth / width) above 1.
C19_DepthFactors ==
    (hf_call # NONE /\ hf_call.cls = "HansenDepthFactor") =>
        /\ hf_call.op = "d_gamma" => hf_ret = Ok(One)
        /\ (hf_call.op = "d_c" /\ hf_call.args[2] # Zero) =>
              hf_ret = Ok(C19_Dc(hf_call.args[1], hf_call.args[2]))
        /\ (hf_call.op = "d_q" /\ hf_call.args[3] # Zero) =>
              LET phi == hf_call.args[1]
                  f_d == hf_call.args[2]
                  f_w == hf_call.args[3]
              IN  IF Gt(phi, R(25, 1))
                  THEN hf_ret = Ok(C19_Dc(f_d, f_w))
                  ELSE hf_ret = Ok(round(Add(One, Mul(tan_sin2(phi),
                                                      C19_K(f_d, f_w))), 2))

\* Dq has been computed at exactly 25 degrees for depth 3 and width 2 (the
\* arctan branch of k): 1 + 0.3109 * 0.9828 = 1.31, where Dc is 1.39
C19_Witness ==
    /\ hf_call # NONE
    /\ hf_call.cls = "HansenDepthFactor"
    /\ hf_call.op = "d_q"
    /\ hf_call.args = <<R(25, 1), R(3, 1), R(2, 1)>>
    /\ hf_ret = Ok(R(131, 100))
    /\ C19_Dc(R(3, 1), R(2, 1)) = R(139, 100)
    /\ C19_Dc(R(2, 1), R(2, 1)) = R(14, 10)

\* the shape factor named op for width f_w, length f_l and shape t
C20_Factor(op, f_w, f_l, t) ==
    CASE op = "s_c" -> HansenShapeFactor_s_c(<<f_w, f_l, t>>)
      [] op = "s_q" -> HansenShapeFactor_s_q(<<f_w, f_l, t>>)
      [] op = "s_gamma" -> HansenShapeFactor_s_gamma(<<f_w, f_l, t>>)

\* C20: a Hansen shape factor of a strip, square or circle is a number that
\* depends on the shape alone, whatever the width and length; of a rectangle
\* it is Sc = Sq = 1 + 0.2 B/L and S-gamma = 1 - 0.4 B/L; for any other shape
\* the call fails with the unknown-shape error (ValueError).
C20_ShapeFactors ==
    (hf_call # NONE /\ hf_call.cls = "HansenShapeFactor") =>
        LET f_w == hf_call.args[1]
            f_l == hf_call.args[2]
            t == hf_call.args[3]
        IN  /\ t \in {Shape_STRIP, Shape_SQUARE, Shape_CIRCLE} =>
                  /\ IsOk(hf_ret)
                  /\ \A w \in HFShapeWidths, l \in HFLengths :
                        C20_Factor(hf_call.op, w, l, t) = hf_ret
            /\ (t = Shape_RECTANGLE /\ hf_call.op \in {"s_c", "s_q"}) =>
                  hf_ret = Ok(round(Add(One, Mul(R(2, 10), Div(f_w, f_l))),
                                    2))
            /\ (t = Shape_RECTANGLE /\ hf_call.op = "s_gamma") =>
                  hf_ret = Ok(round(Sub(One, Mul(R(4, 10), Div(f_w, f_l))),
                                    2))
            /\ t \notin Shape => hf_ret = Raise("ValueError")

\* S-gamma of a 1 by 4 rectangle has been computed: 1 - 0.4 / 4 = 0.9
C20_Witness ==
    /\ hf_call # NONE
    /\ hf_call.cls = "HansenShapeFactor"
    /\ hf_call.op = "s_gamma"
    /\ hf_call.args = <<R(1, 1), R(4, 1), Shape_RECTANGLE>>
    /\ hf_ret = Ok(R(9, 10))

-----------------------------------------------------------------------------
(* Claims about the Terzaghi ultimate capacity *)

\* coef_c * c * Nc + gamma * D * Nq + coef_gamma * gamma * B * Ngamma to two
\* decimals, from the factors the object returns
C21_Qult(coef_c, coef_gamma) ==
    LET nc == TBC_nc(tbc, {}).ret.val
        nq == TBC_nq(tbc, {}).ret.val
        ngamma == TBC_ngamma(tbc, {}).ret.val
    IN  round(Add(Add(Mul(Mul(coef_c, tbc.cohesion), nc),
                      Mul(Mul(tbc.gamma, tbc.fd), nq)),
                  Mul(Mul(Mul(coef_gamma, tbc.gamma), tbc.fw), ngamma)), 2)

-----------------------------------------------------------------------------
(* Claims about the allowable bearing capacity formulas *)

C22_IsPad(cls) == cls \in PadClasses
C22_IsBowles(cls) ==
    cls \in {"BowlesABC4PadFoundation", "BowlesABC4MatFoundation"}

\* the empirical coefficient: 19.16 / 12 for a pad of width <= 1.2,
\* 11.98 / 8 for a wider pad and for every mat
C22_Coefficient(cls, B) ==
    IF C22_IsPad(cls) /\ Le(B, R(6, 5))
    THEN IF C22_IsBowles(cls) THEN R(1916, 100) ELSE R(12, 1)
    ELSE IF C22_IsBowles(cls) THEN R(1198, 100) ELSE R(8, 1)

\* ((3.28 B + 1) / (3.28 B))^2 for a pad wider than 1.2, none otherwise
C22_WidthMultiplier(cls, B) ==
    IF C22_IsPad(cls) /\ Gt(B, R(6, 5))
    THEN LET w == Div(Add(Mul(R(328, 100), B), One), Mul(R(328, 100), B))
         IN  Mul(w, w)
    ELSE One

\* min(1 + 0.33 D/B, 1.33) for Bowles and Meyerhof, min(1 + 0.25 D/B, 1.25)
\* for Terzaghi
C22_DepthFactor(cls, D, B) ==
    IF cls \in TerzaghiClasses
    THEN Min(Add(One, Mul(R(25, 100), Div(D, B))), R(125, 100))
    ELSE Min(Add(One, Mul(R(33, 100), Div(D, B))), R(133, 100))

\* the water correction of the Terzaghi classes
C22_CW(water_depth, D, B) ==
    Min(Sub(R(2, 1), Div(Max(water_depth, D), Mul(R(2, 1), B))), R(2, 1))

\* the pressure the formulas give for the object and the tolerable
\* settlement its constructor was given
C22_Pressure ==
    LET cls == abc.cls
        B == fs_width(abc.foundation_size)
        D == abc.foundation_size.depth
        SR == Div(abc_call.tol_settlement, R(254, 10))
        base == Mul(Mul(C22_Coefficient(cls, B), abc.corrected_spt_number),
                    C22_WidthMultiplier(cls, B))
        FD == C22_DepthFactor(cls, D, B)
    IN  IF cls \in TerzaghiClasses
        THEN round(Mul(Div(base, Mul(C22_CW(abc.water_depth, D, B), FD)),
                       SR), 2)
        ELSE round(Mul(Mul(base, FD), SR), 2)

\* C22: bearing_capacity() of a constructed object returns the pressure of
\* its formula: coefficient 19.16 (Bowles) or 12 (Meyerhof, Terzaghi) with no
\* width multiplier for a pad of width B <= 1.2, coefficient 11.98 or 8 times
\* ((3.28 B + 1) / (3.28 B))^2 for a wider pad, 11.98 or 8 with no multiplier
\* for a mat, and the depth factor min(1 + 0.33 D/B, 1.33) for Bowles and
\* Meyerhof, min(1 + 0.25 D/B, 1.25) for Terzaghi.
C22_WidthThreshold ==
    (abc # NONE /\ abc_call.op = "bearing_capacity") =>
        (IsOk(abc_ret) /\ abc_ret.val = C22_Pressure)

-----------------------------------------------------------------------------
(* Claims about the footing invariants *)

\* what holds of every footing whatever was assigned: a square footing has
\* length = width, a circular footing width = length = diameter, the width
\* is positive, and FoundationSize reads width, length and shape off its
\* footing
C23_Geometry ==
    LET footing == fs.footing_size
    IN  /\ footing.cls = "SquareFooting" =>
              footing_attr(footing, "length") = footing_attr(footing, "width")
        /\ footing.cls = "CircularFooting" =>
              /\ footing_attr(footing, "width") = footing.diameter
              /\ footing_attr(footing, "length") = footing.diameter
        /\ Gt(footing_attr(footing, "width"), Zero)
        /\ fs_width(fs) = footing_attr(footing, "width")
        /\ fs_length(fs) = footing_attr(footing, "length")
        /\ fs_footing_shape(fs) = footing.shape_

\* C23: in every reachable state, after construction and after any sequence
\* of assignments, a square footing has length = width, a circular footing
\* has width = length = diameter, every footing has width > 0, a strip
\* footing built by create_foundation has infinite length, and
\* FoundationSize.width, .length and .footing_shape equal those of its
\* footing.
C23_FootingInvariants ==
    fs # NONE =>
        /\ C23_Geometry
        /\ fs.footing_size.cls = "StripFooting" =>
              footing_attr(fs.footing_size, "length") = INF

\* C24: for every Terzaghi allowable-capacity object (pad or mat) with
\* corrected SPT number > 0, depth > 0, width > 0 and water depth >= 0 the
\* water correction CW is strictly positive, so that bearing_capacity()
\* neither divides by zero nor returns a negative or infinite pressure.
C24_WaterCorrectionPositive ==
    (/\ abc # NONE
     /\ abc.cls \in TerzaghiClasses
     /\ Gt(abc.corrected_spt_number, Zero)
     /\ Gt(abc.foundation_size.depth, Zero)
     /\ Gt(fs_width(abc.foundation_size), Zero)
     /\ Ge(abc.water_depth, Zero)) =>
        /\ Gt(CW(abc.water_depth, abc.foundation_size.depth,
                 fs_width(abc.foundation_size)), Zero)
        /\ abc_call.op = "bearing_capacity" =>
              /\ ~Raises(abc_ret, "ZeroDivisionError")
              /\ IsOk(abc_ret) =>
                    (Gt(abc_ret.val, Zero) /\ abc_ret.val # INF)

-----------------------------------------------------------------------------
(* Claims about the Hansen strip shape factors and inclination factors *)

\* C25: for a strip footing each of the three Hansen shape factors is 1.0,
\* for every width and length.
C25_StripShapeFactorsAreOne ==
    (/\ hf_call # NONE
     /\ hf_call.cls = "HansenShapeFactor"
     /\ hf_call.args[3] = Shape_STRIP) => hf_ret = Ok(One)

\* the load angle of a call of an inclination factor
C26_LoadAngle == IF hf_call.op = "i_c" THEN hf_call.args[2] ELSE hf_call.args[1]

\* the call is made with an accepted load angle and, for i_c, an accepted
\* cohesion and a footing of positive width and length
C26_Accepted ==
    /\ Ge(C26_LoadAngle, Zero) /\ Le(C26_LoadAngle, R(90, 1))
    /\ hf_call.op = "i_c" =>
          /\ Ge(hf_call.args[1], Zero)
          /\ Gt(hf_call.args[3], Zero)
          /\ Gt(hf_call.args[4], Zero)

\* C26: for every load angle in [0, 90] and every cohesion >= 0 the Hansen
\* inclination factors Ic, Iq and I-gamma are defined (the call does not
\* divide by zero) and lie in [0, 1], and they are 1 for the default load
\* angle of 90 degrees.
C26_InclinationFactorsInRange ==
    (/\ hf_call # NONE
     /\ hf_call.cls = "HansenInclinationFactor"
     /\ C26_Accepted) =>
        /\ IsOk(hf_ret)
        /\ Ge(hf_ret.val, Zero)
        /\ Le(hf_ret.val, One)
        /\ C26_LoadAngle = R(90, 1) => hf_ret.val = One

=============================================================================
